---- MODULE Spec2Model ----
(***************************************************************************)
(* Model of the MicroPython ModelManager                                   *)
(* (implementations/micropython/ethervoxai/core/model_manager.py):         *)
(* the model catalog, the compatibility check, the OrderedDict cache of    *)
(* loaded models with its LRU eviction, and the active model.              *)
(*                                                                         *)
(* load_model is modelled at the granularity of its observable points:     *)
(* the entry checks and the cache-hit path (one step), the call of         *)
(* _load_model_from_file (one step), each iteration of the eviction loop   *)
(* of _add_to_cache (one step each) and the insertion with the activation  *)
(* (one step).  A call in flight is always run to completion before the    *)
(* next call starts (single caller).                                       *)
(*                                                                         *)
(* The module also models the MicroPython InferenceEngine                  *)
(* (core/inference_engine.py): process_audio with its four stages, the     *)
(* running statistics, reset_stats, set_performance_mode, process_text and *)
(* cleanup.  The engine holds no reference to a ModelManager.              *)
(*                                                                         *)
(* Specifications:                                                         *)
(*   Spec        the ModelManager operations (the engine is not used)      *)
(*   SpecCompat  check_model_compatibility over a grid of configurations   *)
(*   SpecPipeline  process_audio on every buffer and fault, next to a      *)
(*                 ModelManager that holds a populated cache               *)
(*   SpecStats   every InferenceEngine operation, for the counters         *)
(*   SpecClassify  the classification stage of the engine and of the       *)
(*                 ModelManager                                            *)
(*   SpecInt16   process_audio fed with buffers of 16-bit samples for ever *)
(*   SpecBusy    process_audio in two steps, for processing_active         *)
(*   SpecShared  one ModelManager shared by two callers                    *)
(*   SpecIntent, SpecPyEngine, SpecStack, SpecQuery, SpecVoice             *)
(*               the desktop implementation (python/ethervoxai):           *)
(*               _parse_intent, the InferenceEngine, the LocalLLMStack     *)
(*               and its queries, the VoiceProcessor                       *)
(***************************************************************************)
EXTENDS Integers, Sequences, FiniteSets, TLC

\* ------------------------------------------------------------------ bounds
\* The loader (_load_model_from_file) is invoked at most MaxLoads times.
MaxLoads == 4

\* ------------------------------------------------------- program constants
\* self.max_loaded_models = 2
max_loaded_models == 2

\* Python's None, for a model name and for a model_data reference.
None == "None"
NoData == 0

\* ModelInfo entries of _build_model_catalog, in catalog order.
model_catalog ==
  << [name |-> "wake-word-tiny",     size_kb |-> 8,   type |-> "wake_word",
      min_memory_kb |-> 20,  performance_tier |-> "low"],
     [name |-> "command-classifier", size_kb |-> 45,  type |-> "classification",
      min_memory_kb |-> 80,  performance_tier |-> "medium"],
     [name |-> "tinyllama-pico",     size_kb |-> 200, type |-> "language_model",
      min_memory_kb |-> 220, performance_tier |-> "high"],
     [name |-> "microllama",         size_kb |-> 80,  type |-> "language_model",
      min_memory_kb |-> 120, performance_tier |-> "medium"],
     [name |-> "vad-micro",          size_kb |-> 15,  type |-> "audio_classification",
      min_memory_kb |-> 30,  performance_tier |-> "low"] >>

\* get_available_models: the keys of the catalog.
get_available_models == { model_catalog[i].name : i \in 1..Len(model_catalog) }

\* get_model_info: model_catalog.get(model_name); only used on known names.
get_model_info(model_name) ==
  LET i == CHOOSE j \in 1..Len(model_catalog) : model_catalog[j].name = model_name
  IN  model_catalog[i]

\* tier_order = ['low', 'medium', 'high', 'ultra'] and tier_order.index(t)
tier_order == <<"low", "medium", "high", "ultra">>
TierIndex(t) == CHOOSE i \in 1..Len(tier_order) : tier_order[i] = t

\* --------------------------------------------------- inputs of the model
\* Names a caller passes to load_model: catalog models and a name the
\* catalog does not know.
RequestNames == {"wake-word-tiny", "command-classifier", "tinyllama-pico",
                 "no-such-model"}

\* Values of gc.mem_free() // 1024 (KB) the environment can present.
MemLevels == {10, 100, 250}

\* max_model_size values the constructor is called with: the default (200)
\* and the Pico W board profile (150).
MaxModelSizes == {150, 200}

\* performance_tier values the constructor is called with.
PerformanceTiers == {"medium"}

VARIABLES
  max_model_size,     \* self.max_model_size (KB), fixed at construction
  performance_tier,   \* self.performance_tier, fixed at construction
  loaded_models,      \* self.loaded_models: OrderedDict as a sequence of
                      \*   [name, data], oldest first; data is the identity
                      \*   of the model_data object
  active_model,       \* self.active_model (a name or None)
  active_model_data,  \* self.active_model_data (an identity or NoData)
  mem_free,           \* gc.mem_free() // 1024, owned by the environment
  pc,                 \* position of the load_model call in flight
  model_name,         \* load_model's argument while a call is in flight
  model_data,         \* load_model's local model_data while in flight
  loader_calls,       \* number of _load_model_from_file invocations so far
  use_order,          \* history: names by last successful load_model,
                      \*   least recently used first
  evicted,            \* history: names evicted by _add_to_cache and not
                      \*   inserted again since
  last_victim,        \* history: the entry evicted last
  call,               \* history: the call in flight (snapshot at entry)
  last_call,          \* history: the operation completed last
  prev_call,          \* history: the operation completed before it
  compat_call,        \* history: the last direct check_model_compatibility
                      \*   call, with its arguments and its result
  audio_buffer_size,  \* InferenceEngine.audio_buffer_size
  max_context_length, \* InferenceEngine.max_context_length
  audio_buffer,       \* InferenceEngine.audio_buffer: its length, or
                      \*   NoBuffer after cleanup
  feature_buffer,     \* InferenceEngine.feature_buffer: its length, or
                      \*   NoBuffer after cleanup
  processing_active,  \* InferenceEngine.processing_active
  last_wake_word_time,\* InferenceEngine.last_wake_word_time
  context_buffer,     \* InferenceEngine.context_buffer (deque)
  total_inferences,   \* InferenceEngine.total_inferences
  total_processing_time, \* InferenceEngine.total_processing_time
  memory_peak,        \* InferenceEngine.memory_peak
  ticks,              \* time.ticks_ms()
  eng_op,             \* history: the engine operation completed last
  last_run,           \* history: the last process_audio call (input,
                      \*   stage verdicts, stages run, result, snapshot)
  class_log,          \* history: the classification calls made so far,
                      \*   each with its input and its result
  tasks,              \* the load_model calls in progress when several
                      \*   threads share one ModelManager: per caller the
                      \*   position in load_model and its local variables
  py_engine,          \* the desktop InferenceEngine (python/ethervoxai/
                      \*   inference_engine.py): its fields, the initialize
                      \*   call in progress and the last completed call
  intent_call,        \* history: the last _parse_intent call of the
                      \*   desktop LocalLLMStack, its text and its result
  voice,              \* the desktop VoiceProcessor (python/ethervoxai/
                      \*   voice_processor.py): its state, the coroutines
                      \*   suspended at an await, and whether stop() has
                      \*   returned with no start() since
  stack               \* the desktop LocalLLMStack (python/ethervoxai/
                      \*   local_llm_stack.py): its fields, the call
                      \*   suspended in inference_engine.initialize, and
                      \*   the last completed call

vars == << max_model_size, performance_tier, loaded_models, active_model,
           active_model_data, mem_free, pc, model_name, model_data,
           loader_calls, use_order, evicted, last_victim, call, last_call,
           prev_call, compat_call, audio_buffer_size, max_context_length,
           audio_buffer, feature_buffer, processing_active,
           last_wake_word_time, context_buffer, total_inferences,
           total_processing_time, memory_peak, ticks, eng_op, last_run,
           class_log, tasks, py_engine, intent_call, voice, stack >>

\* The variables of the other components modelled here.
aux_vars == << class_log, tasks, py_engine, intent_call, voice,
              stack >>

\* The variables of the InferenceEngine and of its history.
engine_vars == << audio_buffer_size, max_context_length, audio_buffer,
                  feature_buffer, processing_active, last_wake_word_time,
                  context_buffer, total_inferences, total_processing_time,
                  memory_peak, ticks, eng_op, last_run >>

\* The variables of the ModelManager and of its history.
manager_vars == << max_model_size, performance_tier, loaded_models,
                   active_model, active_model_data, mem_free, pc, model_name,
                   model_data, loader_calls, use_order, evicted, last_victim,
                   call, last_call, prev_call >>

\* ------------------------------------------------------ OrderedDict helpers
Keys(d) == { d[i].name : i \in 1..Len(d) }

\* d[k] for a key that is present
DictGet(d, k) == d[CHOOSE i \in 1..Len(d) : d[i].name = k].data

\* del d[k]
DictDel(d, k) == SelectSeq(d, LAMBDA e : e.name # k)

\* d[k] = v: replaces the value in place when the key is present, appends
\* the key at the end otherwise.
DictSet(d, k, v) ==
  IF k \in Keys(d)
  THEN [ i \in 1..Len(d) |-> IF d[i].name = k THEN [name |-> k, data |-> v] ELSE d[i] ]
  ELSE Append(d, [name |-> k, data |-> v])

\* The reason of a CompatibilityResult: the text of the f-string and the
\* numbers formatted into it.
Reason(text, args) == [text |-> text, args |-> args]

\* Variant of check_model_compatibility that skips the size check of
\* lines 216-222.
CompatNoSizeCheck(name, available_memory, max_size, tier) ==
  IF name \notin get_available_models
  THEN [compatible |-> FALSE, reason |-> Reason("not found", <<>>),
        memory_required |-> 0, performance_impact |-> "unknown"]
  ELSE IF get_model_info(name).min_memory_kb > available_memory
  THEN [compatible |-> FALSE,
        reason |-> Reason("Insufficient memory: need KB, available KB",
                          <<get_model_info(name).min_memory_kb, available_memory>>),
        memory_required |-> get_model_info(name).min_memory_kb,
        performance_impact |-> "high"]
  ELSE [compatible |-> TRUE, reason |-> Reason("Compatible", <<>>),
        memory_required |-> get_model_info(name).min_memory_kb,
        performance_impact |-> "medium"]

\* Variant of check_model_compatibility that skips the memory check of
\* lines 206-213.
CompatNoMemoryCheck(name, available_memory, max_size, tier) ==
  IF name \notin get_available_models
  THEN [compatible |-> FALSE, reason |-> Reason("not found", <<>>),
        memory_required |-> 0, performance_impact |-> "unknown"]
  ELSE IF get_model_info(name).size_kb > max_size
  THEN [compatible |-> FALSE,
        reason |-> Reason("Model too large: KB > KB",
                          <<get_model_info(name).size_kb, max_size>>),
        memory_required |-> get_model_info(name).min_memory_kb,
        performance_impact |-> "high"]
  ELSE [compatible |-> TRUE, reason |-> Reason("Compatible", <<>>),
        memory_required |-> get_model_info(name).min_memory_kb,
        performance_impact |-> "medium"]

\* Variant of check_model_compatibility whose performance_impact of a
\* compatible result follows the ratio memory_required / available_memory.
CompatRatioImpact(name, available_memory, max_size, tier) ==
  IF name \notin get_available_models
  THEN [compatible |-> FALSE, reason |-> Reason("not found", <<>>),
        memory_required |-> 0, performance_impact |-> "unknown"]
  ELSE IF get_model_info(name).min_memory_kb > available_memory
  THEN [compatible |-> FALSE,
        reason |-> Reason("Insufficient memory: need KB, available KB",
                          <<get_model_info(name).min_memory_kb, available_memory>>),
        memory_required |-> get_model_info(name).min_memory_kb,
        performance_impact |-> "high"]
  ELSE IF get_model_info(name).size_kb > max_size
  THEN [compatible |-> FALSE,
        reason |-> Reason("Model too large: KB > KB",
                          <<get_model_info(name).size_kb, max_size>>),
        memory_required |-> get_model_info(name).min_memory_kb,
        performance_impact |-> "high"]
  ELSE [compatible |-> TRUE, reason |-> Reason("Compatible", <<>>),
        memory_required |-> get_model_info(name).min_memory_kb,
        performance_impact |->
          IF 10 * get_model_info(name).min_memory_kb > 8 * available_memory
          THEN "high"
          ELSE IF 10 * get_model_info(name).min_memory_kb > 5 * available_memory
          THEN "medium"
          ELSE "low"]

\* Variant of check_model_compatibility that requires 1.5 times the model
\* size, as the desktop detector does.
CompatWithOverhead(name, available_memory, max_size, tier) ==
  IF name \notin get_available_models
  THEN [compatible |-> FALSE, reason |-> Reason("not found", <<>>),
        memory_required |-> 0, performance_impact |-> "unknown"]
  ELSE LET model_info == get_model_info(name)
           need == IF (3 * model_info.size_kb) \div 2 > model_info.min_memory_kb
                   THEN (3 * model_info.size_kb) \div 2
                   ELSE model_info.min_memory_kb IN
    IF need > available_memory
    THEN [compatible |-> FALSE,
          reason |-> Reason("Insufficient memory: need KB, available KB",
                            <<need, available_memory>>),
          memory_required |-> need, performance_impact |-> "high"]
    ELSE IF model_info.size_kb > max_size
    THEN [compatible |-> FALSE,
          reason |-> Reason("Model too large: KB > KB",
                            <<model_info.size_kb, max_size>>),
          memory_required |-> need, performance_impact |-> "high"]
    ELSE [compatible |-> TRUE, reason |-> Reason("Compatible", <<>>),
          memory_required |-> need, performance_impact |-> "medium"]

\* ------------------------------------------------- check_model_compatibility
check_model_compatibility(name, available_memory, max_size, tier) ==
  IF name \notin get_available_models
  THEN [compatible |-> FALSE, reason |-> Reason("not found", <<>>),
        memory_required |-> 0, performance_impact |-> "unknown"]
  ELSE LET model_info == get_model_info(name) IN
    IF model_info.min_memory_kb > available_memory
    THEN [compatible |-> FALSE,
          reason |-> Reason("Insufficient memory: need KB, available KB",
                            <<model_info.min_memory_kb, available_memory>>),
          memory_required |-> model_info.min_memory_kb,
          performance_impact |-> "high"]
    ELSE IF model_info.size_kb > max_size
    THEN [compatible |-> FALSE,
          reason |-> Reason("Model too large: KB > KB",
                            <<model_info.size_kb, max_size>>),
          memory_required |-> model_info.min_memory_kb,
          performance_impact |-> "high"]
    ELSE [compatible |-> TRUE, reason |-> Reason("Compatible", <<>>),
          memory_required |-> model_info.min_memory_kb,
          performance_impact |->
            IF TierIndex(model_info.performance_tier) > TierIndex(tier) THEN "high"
            ELSE IF TierIndex(model_info.performance_tier) = TierIndex(tier) THEN "medium"
            ELSE "low"]


\* ------------------------------------------------------- history records
NoCall ==
  [op |-> "none", name |-> None, ret |-> FALSE, cause |-> "none",
   data |-> NoData, loads |-> 0, before_cache |-> <<>>,
   before_active |-> None, before_data |-> NoData, before_mem |-> 0,
   before_loads |-> 0, was_evicted |-> FALSE]

\* The record of an operation at its entry.
Entry(op, name) ==
  [op |-> op, name |-> name, ret |-> FALSE, cause |-> "none",
   data |-> NoData, loads |-> 0, before_cache |-> loaded_models,
   before_active |-> active_model, before_data |-> active_model_data,
   before_mem |-> mem_free, before_loads |-> loader_calls,
   was_evicted |-> name \in evicted]

\* The record of an operation at its return: what the caller gets back
\* (ret), why (cause), the model_data now active (data) and the number of
\* loader invocations made since the entry (loads).
Return(rec, ret, cause, data, calls_now) ==
  [rec EXCEPT !.ret = ret, !.cause = cause, !.data = data,
              !.loads = calls_now - rec.before_loads]

\* The record kept of the operation before the last one.
Strip(rec) ==
  [rec EXCEPT !.before_cache = <<>>, !.before_active = None,
              !.before_mem = 0, !.before_loads = 0, !.was_evicted = FALSE]

Used(order, name) == Append(SelectSeq(order, LAMBDA x : x # name), name)

\* -------------------------------------------------------------- load_model
\* Variant of IsActive: load_model without the early return of line 245.
IsActiveNever(name) == FALSE

\* line 245: if model_name == self.active_model
IsActive(name) == name = active_model

\* Variant of InCache: load_model that never finds the model in the cache.
InCacheNever(d, name) == FALSE

\* line 264: if model_name in self.loaded_models
InCache(d, name) == name \in Keys(d)

\* Variant of MoveToEnd: a cache hit that leaves the entry where it is.
MoveToEndStays(d, name) == d

\* lines 265-268: move the entry to the end of the OrderedDict
MoveToEnd(d, name) == DictSet(DictDel(d, name), name, DictGet(d, name))

\* Variant of CacheFull: eviction only once the bound is already exceeded.
CacheFullOffByOne(d) == Len(d) > max_loaded_models

\* Variant of CacheFull: a cache that keeps a single resident model.
CacheFullAtOne(d) == Len(d) >= 1

\* line 341: while len(self.loaded_models) >= self.max_loaded_models
CacheFull(d) == Len(d) >= max_loaded_models

\* lines 245-248: the model is already the active one; return True.
LoadModelActive(name) ==
  /\ IsActive(name)
  /\ last_call' = Return(Entry("load_model", name), TRUE, "ok", active_model_data, loader_calls)
  /\ prev_call' = Strip(last_call)
  /\ use_order' = Used(use_order, name)
  /\ UNCHANGED << compat_call, aux_vars, engine_vars >>
  /\ UNCHANGED << max_model_size, performance_tier, loaded_models, active_model,
                  active_model_data, mem_free, pc, model_name, model_data,
                  loader_calls, evicted, last_victim, call >>

\* lines 250-254: the compatibility check fails; return False.
LoadModelIncompatible(name) ==
  /\ ~IsActive(name)
  /\ ~check_model_compatibility(name, mem_free, max_model_size, performance_tier).compatible
  /\ last_call' = Return(Entry("load_model", name), FALSE, "incompatible",
                         active_model_data, loader_calls)
  /\ prev_call' = Strip(last_call)
  /\ UNCHANGED << compat_call, aux_vars, engine_vars >>
  /\ UNCHANGED << max_model_size, performance_tier, loaded_models, active_model,
                  active_model_data, mem_free, pc, model_name, model_data,
                  loader_calls, use_order, evicted, last_victim, call >>

\* lines 259-271 and 284-296: unload the active model, find the model in
\* the cache, move it to the end, make it the active model; return True.
LoadModelFromCache(name) ==
  /\ ~IsActive(name)
  /\ check_model_compatibility(name, mem_free, max_model_size, performance_tier).compatible
  /\ InCache(loaded_models, name)
  /\ loaded_models' = MoveToEnd(loaded_models, name)
  /\ active_model' = name
  /\ active_model_data' = DictGet(loaded_models', name)
  /\ last_call' = Return(Entry("load_model", name), TRUE, "ok", active_model_data', loader_calls)
  /\ prev_call' = Strip(last_call)
  /\ use_order' = Used(use_order, name)
  /\ UNCHANGED << compat_call, aux_vars, engine_vars >>
  /\ UNCHANGED << max_model_size, performance_tier, mem_free, pc, model_name,
                  model_data, loader_calls, evicted, last_victim, call >>

\* lines 259-274: unload the active model, miss the cache; the call goes on
\* with _load_model_from_file.
LoadModelMiss(name) ==
  /\ ~IsActive(name)
  /\ check_model_compatibility(name, mem_free, max_model_size, performance_tier).compatible
  /\ ~InCache(loaded_models, name)
  /\ loader_calls < MaxLoads
  /\ active_model' = None
  /\ active_model_data' = NoData
  /\ pc' = "load_file"
  /\ model_name' = name
  /\ call' = Entry("load_model", name)
  /\ UNCHANGED << compat_call, aux_vars, engine_vars >>
  /\ UNCHANGED << max_model_size, performance_tier, loaded_models, mem_free,
                  model_data, loader_calls, use_order, evicted, last_victim,
                  last_call, prev_call >>

load_model(name) ==
  /\ pc = "idle"
  /\ \/ LoadModelActive(name)
     \/ LoadModelIncompatible(name)
     \/ LoadModelFromCache(name)
     \/ LoadModelMiss(name)

\* lines 274-276 and 302-336: _load_model_from_file builds a new model_data
\* object; an exception inside it (the allocation of the weights) is caught
\* there and None is returned, on which load_model returns False.
LoadModelFromFile ==
  /\ pc = "load_file"
  /\ loader_calls' = loader_calls + 1
  /\ \E ok \in BOOLEAN :
       IF ok
       THEN /\ model_data' = loader_calls'
            /\ pc' = "add_to_cache"
            /\ UNCHANGED << call, last_call, prev_call, model_name >>
       ELSE /\ model_data' = NoData
            /\ pc' = "idle"
            /\ model_name' = None
            /\ last_call' = Return(call, FALSE, "load_failure", active_model_data, loader_calls')
            /\ prev_call' = Strip(last_call)
            /\ call' = NoCall
  /\ UNCHANGED << compat_call, aux_vars, engine_vars >>
  /\ UNCHANGED << max_model_size, performance_tier, loaded_models, active_model,
                  active_model_data, mem_free, use_order, evicted, last_victim >>

\* lines 341-350: one iteration of the eviction loop of _add_to_cache.
AddToCacheEvict ==
  /\ pc = "add_to_cache"
  /\ CacheFull(loaded_models)
  /\ loaded_models' = Tail(loaded_models)
  /\ evicted' = evicted \cup {Head(loaded_models).name}
  /\ last_victim' = Head(loaded_models)
  /\ UNCHANGED << compat_call, aux_vars, engine_vars >>
  /\ UNCHANGED << max_model_size, performance_tier, active_model,
                  active_model_data, mem_free, pc, model_name, model_data,
                  loader_calls, use_order, call, last_call, prev_call >>

\* line 353 and lines 284-296: the insertion that ends _add_to_cache, then
\* the model becomes the active one and load_model returns True.
AddToCacheInsert ==
  /\ pc = "add_to_cache"
  /\ ~CacheFull(loaded_models)
  /\ loaded_models' = DictSet(loaded_models, model_name, model_data)
  /\ active_model' = model_name
  /\ active_model_data' = DictGet(loaded_models', model_name)
  /\ evicted' = evicted \ {model_name}
  /\ use_order' = Used(use_order, model_name)
  /\ pc' = "idle"
  /\ model_name' = None
  /\ model_data' = NoData
  /\ last_call' = Return(call, TRUE, "ok", active_model_data', loader_calls)
  /\ prev_call' = Strip(last_call)
  /\ call' = NoCall
  /\ UNCHANGED << compat_call, aux_vars, engine_vars >>
  /\ UNCHANGED << max_model_size, performance_tier, mem_free, loader_calls,
                  last_victim >>

\* ---------------------------------------------------- _unload_current_model
\* lines 355-365: forget the active model; the cache is not touched.
unload_current_model ==
  /\ pc = "idle"
  /\ active_model' = None
  /\ active_model_data' = NoData
  /\ last_call' = Return(Entry("unload", active_model), TRUE, "ok", NoData, loader_calls)
  /\ prev_call' = Strip(last_call)
  /\ UNCHANGED << compat_call, aux_vars, engine_vars >>
  /\ UNCHANGED << max_model_size, performance_tier, loaded_models, mem_free, pc,
                  model_name, model_data, loader_calls, use_order, evicted,
                  last_victim, call >>

\* ------------------------------------------------------------------ cleanup
\* Variant of cleanup that clears the cache and keeps the active model.
CleanupKeepsActive ==
  /\ pc = "idle"
  /\ loaded_models' = <<>>
  /\ last_call' = Return(Entry("cleanup", None), TRUE, "ok", NoData, loader_calls)
  /\ prev_call' = Strip(last_call)
  /\ UNCHANGED << compat_call, aux_vars, engine_vars >>
  /\ UNCHANGED << max_model_size, performance_tier, mem_free, pc, model_name,
                  model_data, loader_calls, use_order, evicted, last_victim,
                  call, active_model, active_model_data >>

\* lines 529-538: unload the active model and clear the cache.
cleanup ==
  /\ pc = "idle"
  /\ active_model' = None
  /\ active_model_data' = NoData
  /\ loaded_models' = <<>>
  /\ last_call' = Return(Entry("cleanup", None), TRUE, "ok", NoData, loader_calls)
  /\ prev_call' = Strip(last_call)
  /\ UNCHANGED << compat_call, aux_vars, engine_vars >>
  /\ UNCHANGED << max_model_size, performance_tier, mem_free, pc, model_name,
                  model_data, loader_calls, use_order, evicted, last_victim, call >>

\* -------------------------------------------------------------- environment
\* The free heap reported by gc.mem_free() changes between calls.
MemChange ==
  /\ pc = "idle"
  /\ \E m \in MemLevels \ {mem_free} : mem_free' = m
  /\ UNCHANGED << compat_call, aux_vars, engine_vars >>
  /\ UNCHANGED << max_model_size, performance_tier, loaded_models, active_model,
                  active_model_data, pc, model_name, model_data, loader_calls,
                  use_order, evicted, last_victim, call, last_call, prev_call >>

\* -------------------------------------------------------- other components
\* No classification call has been made.
NoClassLog == << >>

\* No caller is inside load_model: its position, its locals, what its last
\* call returned, and whether the model of that call was in the cache and
\* active when the call returned.
IdleTask == [pc |-> "idle", model_name |-> None, model_data |-> NoData,
             ret |-> "none", held |-> FALSE]
Callers == {1, 2}

\* InferenceEngine.__init__ of the desktop implementation (lines 73-78):
\* the fields, no initialize call in progress (pc, arg, before), and the
\* history: the call completed last, and whether an initialize has
\* completed with no unload_model call since.
NoModel == "None"
InitPyEngine == [is_initialized |-> FALSE, current_model |-> NoModel,
                 model_path |-> NoModel, pc |-> "idle", arg |-> NoModel,
                 before |-> [op |-> "none"], last |-> [op |-> "none"],
                 initialized_since_unload |-> FALSE]

\* No _parse_intent call has been made.
NoIntent == [op |-> "none"]

\* VoiceProcessingState (lines 34-41); ERROR is never assigned.
IDLE == "idle"
LISTENING_FOR_WAKE_WORD == "listening_for_wake_word"
RECORDING_COMMAND == "recording_command"
PROCESSING_SPEECH == "processing_speech"
SPEAKING == "speaking"

\* The tasks that run _on_wake_word_detected, one per detection in progress.
RecTasks == {1, 2}

\* VoiceProcessor.__init__ (lines 314-332), with all the audio packages
\* importable or not (AUDIO_DEPENDENCIES_AVAILABLE, lines 17-30; when one
\* of those imported after numpy is missing there is no TTS engine and
\* nothing is recorded).  rec is where each
\* detection task is suspended, speak where the speak_response call is,
\* previous_state the local variable of that call.  started and stopped are
\* history: start() has been called, stop() has returned with no start()
\* since.
NewVoiceProcessor(deps) ==
  [state |-> IDLE, deps |-> deps, is_listening |-> FALSE,
   is_recording |-> FALSE, is_speaking |-> FALSE,
   rec |-> [t \in RecTasks |-> "idle"],
   speak |-> "idle", previous_state |-> IDLE,
   started |-> FALSE, stopped |-> FALSE]

\* LocalLLMStack.__init__ (lines 57-62); no call is suspended (pc, arg) and
\* no call has completed (last).
NewStack == [is_initialized |-> FALSE, current_model |-> NoModel,
             preferred_model |-> NoModel, privacy_mode |-> "strict",
             pc |-> "idle", arg |-> NoModel, last |-> [op |-> "none"]]

InitOtherAux ==
  /\ class_log = NoClassLog
  /\ tasks = [c \in Callers |-> IdleTask]
  /\ py_engine = InitPyEngine
  /\ intent_call = NoIntent
  /\ stack = NewStack

InitAux ==
  /\ InitOtherAux
  /\ voice = NewVoiceProcessor(TRUE)

(***************************************************************************)
(* Direct calls of the compatibility checks                                *)
(***************************************************************************)

\* No compatibility check has been called yet.
NoCompat == [impl |-> "none"]

\* Limits (KB) a ModelManager is constructed with: the default (200), the
\* max_model_size_kb of the pico_w (150), pico (180) and esp32 (400) boards,
\* and a limit below the size of the smallest catalog model (5 < 8), which
\* __init__ stores like any other value (line 60).
CompatMaxSizes == {5, 150, 180, 200, 400}

\* Free memory values (KB) around every catalog threshold.
CompatMemLevels == {10, 20, 24, 25, 30, 40, 50, 80, 100, 120, 160, 220, 250,
                    300, 440}

\* Names passed to the check: the catalog and one unknown name.
CompatNames == get_available_models \cup {"no-such-model"}

\* ModelManager.check_model_compatibility called directly by a client.
CheckCompatibility(name) ==
  /\ pc = "idle"
  /\ compat_call' = [impl |-> "ModelManager", name |-> name,
                     available_memory |-> mem_free,
                     result |-> check_model_compatibility(
                                  name, mem_free, max_model_size,
                                  performance_tier)]
  /\ UNCHANGED << manager_vars, aux_vars, engine_vars >>

\* PlatformDetector.check_model_compatibility of the desktop implementation
\* (platform_detector.py:128-178): the fields the verdict is made of.
detector_check_model_compatibility(model_size_mb, min_memory_mb, available_memory) ==
  LET scaled == (3 * model_size_mb) \div 2
      required_memory == IF scaled > min_memory_mb THEN scaled
                         ELSE min_memory_mb
  IN [is_compatible |-> available_memory >= required_memory,
      required_memory |-> required_memory,
      high_memory_warning |-> 10 * required_memory > 8 * available_memory]

\* The desktop detector called with the size and minimum memory of a
\* catalog descriptor.
DetectorCheckCompatibility(name) ==
  /\ pc = "idle"
  /\ compat_call' = [impl |-> "PlatformDetector", name |-> name,
                     available_memory |-> mem_free,
                     result |-> detector_check_model_compatibility(
                                  get_model_info(name).size_kb,
                                  get_model_info(name).min_memory_kb,
                                  mem_free)]
  /\ UNCHANGED << manager_vars, aux_vars, engine_vars >>

(***************************************************************************)
(* InferenceEngine                                                         *)
(***************************************************************************)
\* audio_buffer / feature_buffer after cleanup (None in the source).
NoBuffer == -1

\* No process_audio call has completed yet.
NoRun == [op |-> "none"]

\* InferenceEngine.__init__ with its default arguments.
InitEngine ==
  /\ audio_buffer_size = 1024
  /\ max_context_length = 128
  /\ audio_buffer = 1024
  /\ feature_buffer = 40
  /\ processing_active = FALSE
  /\ last_wake_word_time = 0
  /\ context_buffer = <<>>
  /\ total_inferences = 0
  /\ total_processing_time = 0
  /\ memory_peak = 0
  /\ ticks = 0
  /\ eng_op = "init"
  /\ last_run = NoRun

\* Most process_audio calls with a non-empty buffer in one behaviour between
\* two reset_stats.
MaxRuns == 2

\* Largest clock reading (ms).
MaxTicks == 4

\* Most entries appended to the context buffer.
MaxTexts == 1

\* Confidences are floats in the source; here they are counted in units of
\* 1/4096000 (4096000 = 32768 * 125), in which every confidence the stages
\* compute on the buffers of AudioInputs is an integer.
ConfUnit == 4096000

\* An audio buffer: n samples of magnitude amp, all positive (alt = FALSE) or
\* of alternating sign (alt = TRUE).  Samples of a Python list are not
\* limited to 16 bits.  n = 0 is the empty buffer (or None).
AudioInputs ==
  { [n |-> 0,   amp |-> 0,     alt |-> FALSE],
    [n |-> 5,   amp |-> 40000, alt |-> FALSE],
    [n |-> 125, amp |-> 1000,  alt |-> TRUE],
    [n |-> 125, amp |-> 32767, alt |-> FALSE],
    [n |-> 60,  amp |-> 40000, alt |-> TRUE],
    [n |-> 125, amp |-> 34413, alt |-> FALSE],
    [n |-> 125, amp |-> 34413, alt |-> TRUE],
    [n |-> 100, amp |-> 40000, alt |-> TRUE],
    [n |-> 125, amp |-> 0,     alt |-> FALSE],
    [n |-> 125, amp |-> 70000, alt |-> FALSE] }

\* Where an exception is raised during a call, if the call gets there: in
\* the body of a stage, in _extract_audio_features, or in process_audio
\* itself when it builds the result of the stages ("orchestrator").
Faults == {"none", "vad", "wake_word", "features", "classification",
           "response", "orchestrator"}

\* time.ticks_diff over one call, and initial_memory - gc.mem_free() (bytes;
\* negative when a collection ran during the call).
Elapsed == {0, 2}
MemoryUsed == {-512, 2048}

\* Elapsed times and one memory delta, for the runs whose subject is the
\* verdict of the stages.
NominalElapsed == {1, 2}
NominalMemoryUsed == {1024}

\* Buffers and faults for the runs whose subject is the counters: the empty
\* buffer, a quiet one and one that carries a command.
StatsAudioInputs ==
  { a \in AudioInputs : \/ a.n = 0
                         \/ (a.n = 125 /\ a.amp = 1000)
                         \/ (a.n = 100 /\ a.amp = 40000) }
StatsFaults == {"none", "orchestrator"}

Min(a, b) == IF a < b THEN a ELSE b

Max(a, b) == IF a > b THEN a ELSE b

\* Variant of _run_vad whose confidence is not clamped to 1.0.
RunVadNoClamp(audio, fault) ==
  IF fault = "vad" THEN [voice_detected |-> FALSE, confidence |-> 0]
  ELSE IF audio.n < 10 THEN [voice_detected |-> FALSE, confidence |-> 0]
  ELSE LET energy_db == IF audio.amp > 0
                        THEN Min(20 * audio.amp, 100 * 32768)
                        ELSE 0
           threshold == 15 * 32768
           confidence ==
             Max(0, IF energy_db > threshold
                    THEN ((energy_db - threshold) * 25) \div 4
                    ELSE 0)
       IN [voice_detected |-> confidence > (3 * ConfUnit) \div 10,
           confidence |-> confidence]

\* _run_vad (lines 236-272).  energy is the mean of the squares, amp * amp,
\* positive exactly when amp is; energy ** 0.5 is amp; energy_db =
\* min(20 * amp / 32768, 100) is kept multiplied by 32768.
run_vad(audio, fault) ==
  IF fault = "vad" THEN [voice_detected |-> FALSE, confidence |-> 0]
  ELSE IF audio.n < 10 THEN [voice_detected |-> FALSE, confidence |-> 0]
  ELSE LET energy_db == IF audio.amp > 0
                        THEN Min(20 * audio.amp, 100 * 32768)
                        ELSE 0
           threshold == 15 * 32768
           confidence ==
             Max(0, IF energy_db > threshold
                    THEN Min(((energy_db - threshold) * 25) \div 4, ConfUnit)
                    ELSE 0)
       IN [voice_detected |-> confidence > (3 * ConfUnit) \div 10,
           confidence |-> confidence]

\* _extract_audio_features (lines 393-437): eight chunk RMS values, the zero
\* crossing rate and the spectral centroid.  Every chunk of a buffer of
\* constant magnitude has RMS amp; an alternating buffer has n - 1 zero
\* crossings; weighted_sum / magnitude_sum is (n - 1) / 2.  The divisions are
\* exact for the lengths 100 and 125.
extract_audio_features(audio, fault) ==
  IF fault = "features" THEN [i \in 1..10 |-> 0]
  ELSE LET rms == audio.amp
           zcr == IF audio.alt /\ audio.amp > 0
                  THEN ((audio.n - 1) * 1000) \div audio.n ELSE 0
           spectral_centroid ==
             IF audio.amp > 0 THEN ((audio.n - 1) * 1000) \div (2 * audio.n)
             ELSE 0
       IN [i \in 1..10 |-> IF i <= 8 THEN rms
                           ELSE IF i = 9 THEN zcr ELSE spectral_centroid]

\* sum(abs(f) for f in features); no feature is negative.
RECURSIVE SumSeq(_)
SumSeq(f) == IF f = <<>> THEN 0 ELSE Head(f) + SumSeq(Tail(f))

\* max(features) and min(features).
MaxSeq(f) == CHOOSE x \in { f[i] : i \in 1..Len(f) } :
               \A i \in 1..Len(f) : x >= f[i]
MinSeq(f) == CHOOSE x \in { f[i] : i \in 1..Len(f) } :
               \A i \in 1..Len(f) : x <= f[i]

\* _run_wake_word_detection (lines 274-310).  detection_score =
\* (sum/10 * 0.7 + (max - min) * 0.3) / 100 is kept multiplied by 10000.
\* The dict returned after the computation carries the constant
\* 'processing_time_ms': 8 (line 304); 'features' is left out.
run_wake_word_detection(audio, fault) ==
  IF fault = "wake_word" THEN [detected |-> FALSE, confidence |-> 0]
  ELSE IF audio.n < 100 THEN [detected |-> FALSE, confidence |-> 0]
  ELSE LET features == extract_audio_features(audio, fault)
           energy_pattern == SumSeq(features)
           spectral_pattern == MaxSeq(features) - MinSeq(features)
           detection_score == 7 * energy_pattern + 30 * spectral_pattern
           confidence == IF detection_score >= 10000 THEN ConfUnit
                         ELSE (detection_score * 4096) \div 10
       IN [detected |-> confidence > (6 * ConfUnit) \div 10,
           confidence |-> confidence, processing_time_ms |-> 8]

\* The commands list of _run_command_classification (lines 323-327).
commands == << "turn_on_light", "turn_off_light", "increase_volume",
               "decrease_volume", "play_music", "stop_music", "set_timer",
               "check_weather", "tell_time", "help" >>

\* The None that _run_command_classification returns.
NoCommand == [is_none |-> TRUE, command |-> "", confidence |-> 0]

\* Scores of a distribution are counted in units of 1/(9 * ConfUnit), in
\* which (1.0 - confidence) / (len(commands) - 1) is an integer.
ScoreUnit == 9 * ConfUnit

\* Variant of _run_command_classification whose choice drifts with the
\* number of inferences the engine has made.
ClassificationDriftsWithUse(audio, fault) ==
  IF fault = "classification" THEN NoCommand
  ELSE IF audio.n < 50 THEN NoCommand
  ELSE LET features == extract_audio_features(audio, fault)
           feature_sum == SumSeq(features) + total_inferences
           command_idx == feature_sum % Len(commands)
           confidence == Min((6 * ConfUnit) \div 10
                               + ((feature_sum % 100) * ConfUnit) \div 250,
                             (95 * ConfUnit) \div 100)
       IN [is_none |-> FALSE, command |-> commands[command_idx + 1],
           confidence |-> confidence,
           all_scores |-> [i \in 1..Len(commands) |->
                             IF i = command_idx + 1 THEN 9 * confidence
                             ELSE ConfUnit - confidence]]

\* _run_command_classification (lines 312-358).  all_scores is the dict in
\* the order of the commands list, in ScoreUnit.
run_command_classification(audio, fault) ==
  IF fault = "classification" THEN NoCommand
  ELSE IF audio.n < 50 THEN NoCommand
  ELSE LET features == extract_audio_features(audio, fault)
           feature_sum == SumSeq(features)
           command_idx == feature_sum % Len(commands)
           confidence == Min((6 * ConfUnit) \div 10
                               + ((feature_sum % 100) * ConfUnit) \div 250,
                             (95 * ConfUnit) \div 100)
       IN [is_none |-> FALSE, command |-> commands[command_idx + 1],
           confidence |-> confidence,
           all_scores |-> [i \in 1..Len(commands) |->
                             IF i = command_idx + 1 THEN 9 * confidence
                             ELSE ConfUnit - confidence]]

\* The responses dict of _generate_response (lines 366-377).
responses ==
  [ turn_on_light |-> "Light turned on",
    turn_off_light |-> "Light turned off",
    increase_volume |-> "Volume increased",
    decrease_volume |-> "Volume decreased",
    play_music |-> "Playing music",
    stop_music |-> "Music stopped",
    set_timer |-> "Timer set",
    check_weather |-> "Weather data not available offline",
    tell_time |-> "Clock not available",
    help |-> "I can control lights, volume, and music" ]

\* Variant: a command without a canned response gets the empty string.
EmptyResponse == ""

\* The default of responses.get (line 379).
UnhandledResponse == "Command understood but not implemented"

\* _generate_response (lines 360-391).
generate_response(command_result, fault) ==
  IF fault = "response"
  THEN [response |-> "Error processing command"]
  ELSE [response |-> IF command_result.command \in DOMAIN responses
                     THEN responses[command_result.command]
                     ELSE UnhandledResponse,
        command |-> command_result.command]

\* Variant: the VAD verdict never stops the run.
VadNeverRejects(vad_result) == FALSE

\* Line 144: not vad_result or not vad_result.get('voice_detected', False).
VadRejects(vad_result) == ~vad_result.voice_detected

\* Variant: the wake-word verdict never stops the run.
WakeNeverRejects(wake_word_result) == FALSE

\* Line 163: not wake_word_result or not wake_word_result.get('detected').
WakeRejects(wake_word_result) == ~wake_word_result.detected

\* Variant: a command is accepted only from confidence 0.7.
CommandAcceptedFromThreshold(command_result) ==
  /\ ~command_result.is_none
  /\ command_result.command # ""
  /\ command_result.confidence >= (7 * ConfUnit) \div 10

\* Line 183: command_result and command_result.get('command').
CommandAccepted(command_result) ==
  /\ ~command_result.is_none
  /\ command_result.command # ""

\* Variant: the wake-word and classification stages borrow their models from
\* the ModelManager.
CacheCallsOfBorrowingStages(stages) ==
  SelectSeq(<<"wake-word-tiny", "command-classifier">>,
            LAMBDA m : \/ m = "wake-word-tiny" /\ Len(stages) >= 2
                       \/ m = "command-classifier" /\ Len(stages) >= 3)

\* The model names process_audio asks the ModelManager for while the given
\* stages run: none, the engine holds no reference to a ModelManager and the
\* stages compute on the buffer alone (lines 277-278).
cache_calls(stages) == <<>>

\* The cache after the given names have been asked for: a resident name
\* moves to the most recently used end, as in load_model.
RECURSIVE Touch(_, _)
Touch(d, names) ==
  IF names = <<>> THEN d
  ELSE Touch(IF InCache(d, Head(names)) THEN MoveToEnd(d, Head(names)) ELSE d,
             Tail(names))

\* The stages and the result of process_audio from line 139 on (lines
\* 139-230), for a non-empty buffer.  failed is the stage in which the
\* exception was raised, if any.
Pipeline(audio, fault) ==
  LET vad_result == run_vad(audio, fault)
      wake_word_result == run_wake_word_detection(audio, fault)
      command_result == run_command_classification(audio, fault)
      response_result == generate_response(command_result, fault)
      error == [success |-> FALSE, result_type |-> "error",
                data |-> [error |-> fault], confidence |-> 0,
                model_name |-> "none"]
      failed_in(stage) ==
        IF fault = stage \/ (fault = "features" /\ stage = "wake_word"
                                                /\ audio.n >= 100)
        THEN stage ELSE "none"
  IN
  IF VadRejects(vad_result)
  THEN [stages |-> <<"vad">>, failed |-> failed_in("vad"),
        wake_detected |-> FALSE,
        vad |-> vad_result, wake |-> [detected |-> FALSE, confidence |-> 0],
        classification |-> NoCommand,
        result |-> IF fault = "orchestrator" THEN error
                   ELSE [success |-> TRUE, result_type |-> "vad",
                         data |-> [voice_detected |-> FALSE],
                         confidence |-> vad_result.confidence,
                         model_name |-> "vad"]]
  ELSE IF WakeRejects(wake_word_result)
  THEN [stages |-> <<"vad", "wake_word">>, failed |-> failed_in("wake_word"),
        wake_detected |-> FALSE,
        vad |-> vad_result, wake |-> wake_word_result,
        classification |-> NoCommand,
        result |-> IF fault = "orchestrator" THEN error
                   ELSE [success |-> TRUE, result_type |-> "voice_activity",
                         data |-> vad_result,
                         confidence |-> vad_result.confidence,
                         model_name |-> "vad"]]
  ELSE IF CommandAccepted(command_result)
  THEN [stages |-> <<"vad", "wake_word", "classification", "response">>,
        failed |-> failed_in("response"),
        wake_detected |-> TRUE,
        vad |-> vad_result, wake |-> wake_word_result,
        classification |-> command_result,
        result |-> IF fault = "orchestrator" THEN error
                   ELSE [success |-> TRUE, result_type |-> "command",
                         data |-> [command |-> command_result.command,
                                   confidence |-> command_result.confidence,
                                   response |-> response_result.response,
                                   wake_word |-> wake_word_result],
                         confidence |-> command_result.confidence,
                         model_name |-> "command_classifier"]]
  ELSE [stages |-> <<"vad", "wake_word", "classification">>,
        failed |-> failed_in("classification"),
        wake_detected |-> TRUE,
        vad |-> vad_result, wake |-> wake_word_result,
        classification |-> command_result,
        result |-> IF fault = "orchestrator" THEN error
                   ELSE [success |-> TRUE, result_type |-> "wake_word",
                         data |-> wake_word_result,
                         confidence |-> wake_word_result.confidence,
                         model_name |-> "wake_word"]]

\* The three counters of the engine.
Stats == [total_inferences |-> total_inferences,
          total_processing_time |-> total_processing_time,
          memory_peak |-> memory_peak]

\* Variant of update_stats that does not count the call.
UpdateStatsNoCount(stats, processing_time, memory_used) ==
  [total_inferences |-> stats.total_inferences,
   total_processing_time |-> stats.total_processing_time + processing_time,
   memory_peak |-> IF memory_used > stats.memory_peak THEN memory_used
                   ELSE stats.memory_peak]

\* Variant of update_stats that stores the last memory delta as the peak.
UpdateStatsLastDelta(stats, processing_time, memory_used) ==
  [total_inferences |-> stats.total_inferences + 1,
   total_processing_time |-> stats.total_processing_time + processing_time,
   memory_peak |-> memory_used]

\* _update_stats (lines 451-464).
update_stats(stats, processing_time, memory_used) ==
  [total_inferences |-> stats.total_inferences + 1,
   total_processing_time |-> stats.total_processing_time + processing_time,
   memory_peak |-> IF memory_used > stats.memory_peak THEN memory_used
                   ELSE stats.memory_peak]

\* _create_result (lines 439-449): the InferenceResult namedtuple (lines
\* 31-34) of the fields chosen by the branch of process_audio that returns,
\* with the elapsed time and the memory delta of the whole call.
create_result(fields, processing_time_ms, memory_used) ==
  [success |-> fields.success, result_type |-> fields.result_type,
   data |-> fields.data, confidence |-> fields.confidence,
   processing_time_ms |-> processing_time_ms, memory_used |-> memory_used,
   model_name |-> fields.model_name]

\* What process_audio returns for an empty buffer (None, line 134).
NoResult == [success |-> FALSE, result_type |-> "None", data |-> [none |-> TRUE],
             confidence |-> 0, model_name |-> "None"]

\* Variant of the exit of process_audio in which the flag is cleared next to
\* each return of the try block and not in a finally clause.
ClearedOnNormalReturn(result) == result.result_type = "error"

\* processing_active when process_audio is left with the given result: the
\* finally clause (lines 232-233) clears it on every path, the returns of the
\* try block and the return of the except clause alike.
processing_active_after(result) == FALSE

\* process_audio (lines 123-234).
process_audio(audio_data, fault, elapsed, memory_used) ==
  /\ pc = "idle"
  /\ eng_op' = "process_audio"
  /\ IF audio_data.n = 0
     THEN /\ last_run' = [op |-> "process_audio", audio |-> audio_data,
                          fault |-> "none", elapsed |-> 0, memory_used |-> 0,
                          stages |-> <<>>, failed |-> "none",
                          cache_calls |-> <<>>, vad |-> run_vad(audio_data, "none"),
                          wake |-> [detected |-> FALSE, confidence |-> 0],
                          classification |-> NoCommand, response_ran |-> FALSE,
                          result |-> NoResult]
          /\ UNCHANGED << manager_vars, compat_call, aux_vars, audio_buffer_size,
                          max_context_length, audio_buffer, feature_buffer,
                          processing_active, last_wake_word_time,
                          context_buffer, total_inferences,
                          total_processing_time, memory_peak, ticks >>
     ELSE /\ total_inferences < MaxRuns
          /\ ticks + elapsed <= MaxTicks
          /\ LET p == Pipeline(audio_data, fault)
                 s == update_stats(Stats, elapsed, memory_used)
             IN /\ last_run' = [op |-> "process_audio", audio |-> audio_data,
                                fault |-> fault, elapsed |-> elapsed,
                                memory_used |-> memory_used,
                                stages |-> p.stages, failed |-> p.failed,
                                cache_calls |-> cache_calls(p.stages),
                                vad |-> p.vad, wake |-> p.wake,
                                classification |-> p.classification,
                                response_ran |-> "response" \in
                                  { p.stages[i] : i \in 1..Len(p.stages) },
                                result |-> create_result(p.result, elapsed,
                                                         memory_used)]
                /\ loaded_models' = Touch(loaded_models, cache_calls(p.stages))
                /\ last_wake_word_time' =
                     IF p.wake_detected THEN ticks ELSE last_wake_word_time
                /\ total_inferences' = s.total_inferences
                /\ total_processing_time' = s.total_processing_time
                /\ memory_peak' = s.memory_peak
          /\ processing_active' =
               processing_active_after(Pipeline(audio_data, fault).result)
          /\ ticks' = ticks + elapsed
          /\ UNCHANGED << max_model_size, performance_tier, active_model,
                          active_model_data, mem_free, pc, model_name,
                          model_data, loader_calls, use_order, evicted,
                          last_victim, call, last_call, prev_call,
                          compat_call, aux_vars, audio_buffer_size,
                          max_context_length,
                          audio_buffer, feature_buffer, context_buffer >>

\* A process_audio call is executing: it has passed line 140 and has not
\* reached its finally clause.
Executing == eng_op = "process_audio_enter"

\* process_audio up to line 140, for a non-empty buffer: the flag is set.
\* The buffer and the place of the exception, if one is going to be raised,
\* are kept for the rest of the call.
process_audio_enter(audio_data, fault) ==
  /\ pc = "idle"
  /\ ~Executing
  /\ audio_data.n > 0
  /\ total_inferences < MaxRuns
  /\ eng_op' = "process_audio_enter"
  /\ last_run' = [op |-> "process_audio_enter", audio |-> audio_data,
                  fault |-> fault]
  /\ processing_active' = TRUE
  /\ UNCHANGED << manager_vars, compat_call, aux_vars, audio_buffer_size,
                  max_context_length, audio_buffer, feature_buffer,
                  last_wake_word_time, context_buffer, total_inferences,
                  total_processing_time, memory_peak, ticks >>

\* The rest of the call that is executing (lines 142-234): the stages, the
\* result, and the finally clause.
process_audio_exit(elapsed, memory_used) ==
  /\ Executing
  /\ process_audio(last_run.audio, last_run.fault, elapsed, memory_used)

\* process_audio on an empty buffer or None: it returns at line 134.
process_audio_empty ==
  /\ ~Executing
  /\ process_audio([n |-> 0, amp |-> 0, alt |-> FALSE], "none", 0, 0)

\* _generate_response called on its own with a command name (lines 360-391).
generate_response_call(command) ==
  /\ pc = "idle"
  /\ eng_op' = "generate_response"
  /\ last_run' = [op |-> "generate_response", command |-> command,
                  result |-> generate_response(
                               [is_none |-> FALSE, command |-> command,
                                confidence |-> ConfUnit], "none")]
  /\ UNCHANGED << manager_vars, compat_call, aux_vars, audio_buffer_size,
                  max_context_length, audio_buffer, feature_buffer,
                  processing_active, last_wake_word_time, context_buffer,
                  total_inferences, total_processing_time, memory_peak,
                  ticks >>

\* Text inputs, and text_input.strip().
Texts == {"hello", "   "}
StripText(text) == IF text = "   " THEN "" ELSE text

\* deque.append with maxlen, and deque(iterable, maxlen).
DequeOf(items, maxlen) ==
  IF Len(items) <= maxlen THEN items
  ELSE SubSeq(items, Len(items) - maxlen + 1, Len(items))

\* process_text (lines 466-498).
process_text(text_input) ==
  /\ pc = "idle"
  /\ eng_op' = "process_text"
  /\ IF StripText(text_input) = ""
     THEN UNCHANGED context_buffer
     ELSE /\ Len(context_buffer) < MaxTexts
          /\ context_buffer' = DequeOf(Append(context_buffer,
                                              StripText(text_input)),
                                       max_context_length)
  /\ UNCHANGED << manager_vars, compat_call, aux_vars, audio_buffer_size,
                  max_context_length, audio_buffer, feature_buffer,
                  processing_active, last_wake_word_time, total_inferences,
                  total_processing_time, memory_peak, ticks, last_run >>

\* reset_stats (lines 538-545).
reset_stats ==
  /\ pc = "idle"
  /\ eng_op' = "reset_stats"
  /\ total_inferences' = 0
  /\ total_processing_time' = 0
  /\ memory_peak' = 0
  /\ UNCHANGED << manager_vars, compat_call, aux_vars, audio_buffer_size,
                  max_context_length, audio_buffer, feature_buffer,
                  processing_active, last_wake_word_time, context_buffer,
                  ticks, last_run >>

\* Modes passed to set_performance_mode: a valid one and an invalid one.
Modes == {"low_power", "turbo"}

\* set_performance_mode (lines 547-576).
set_performance_mode(mode) ==
  /\ pc = "idle"
  /\ eng_op' = "set_performance_mode"
  /\ IF mode \notin {"low_power", "balanced", "high_performance"}
     THEN UNCHANGED << audio_buffer_size, max_context_length, audio_buffer,
                       context_buffer >>
     ELSE /\ audio_buffer_size' = CASE mode = "low_power" -> 512
                                    [] mode = "balanced" -> 1024
                                    [] mode = "high_performance" -> 2048
          /\ max_context_length' = CASE mode = "low_power" -> 64
                                     [] mode = "balanced" -> 128
                                     [] mode = "high_performance" -> 256
          /\ audio_buffer' = audio_buffer_size'
          /\ context_buffer' = DequeOf(context_buffer, max_context_length')
  /\ UNCHANGED << manager_vars, compat_call, aux_vars, feature_buffer,
                  processing_active, last_wake_word_time, total_inferences,
                  total_processing_time, memory_peak, ticks, last_run >>

\* InferenceEngine.cleanup (lines 578-593).
engine_cleanup ==
  /\ pc = "idle"
  /\ eng_op' = "cleanup"
  /\ context_buffer' = <<>>
  /\ audio_buffer' = NoBuffer
  /\ feature_buffer' = NoBuffer
  /\ UNCHANGED << manager_vars, compat_call, aux_vars, audio_buffer_size,
                  max_context_length, processing_active, last_wake_word_time,
                  total_inferences, total_processing_time, memory_peak, ticks,
                  last_run >>

\* ----------------------------------------------- the classification stage
\* Most classification calls recorded in one behaviour.
MaxCalls == 2

\* Buffers passed to _run_command_classification on its own: one too short
\* for it and two it classifies.
ClassAudioInputs ==
  { a \in AudioInputs : \/ a.n = 5
                         \/ (a.n = 100 /\ a.amp = 40000)
                         \/ (a.n = 125 /\ a.amp = 34413 /\ ~a.alt) }

\* Buffers and elapsed time of the process_audio calls made between two
\* classification calls.
BetweenAudioInputs == { a \in AudioInputs : a.n = 100 /\ a.amp = 40000 }
BetweenElapsed == {1}

\* _run_command_classification called with a buffer; the call changes no
\* field of the engine.
run_command_classification_call(audio) ==
  /\ pc = "idle"
  /\ Len(class_log) < MaxCalls
  /\ eng_op' = "run_command_classification"
  /\ class_log' = Append(class_log,
                         [impl |-> "InferenceEngine", input |-> audio,
                          result |-> run_command_classification(audio, "none")])
  /\ UNCHANGED << manager_vars, compat_call, tasks, py_engine, intent_call, voice, stack,
                  audio_buffer_size, max_context_length, audio_buffer,
                  feature_buffer, processing_active, last_wake_word_time,
                  context_buffer, total_inferences, total_processing_time,
                  memory_peak, ticks, last_run >>

\* Feature vectors passed to ModelManager.process_with_model: the empty
\* list and two lists of integers.
FeatureVectors == { <<>>, <<1, 2, 3>>, <<4>> }

\* The commands list of _process_classification (line 439).
manager_commands == << "turn_on", "turn_off", "increase", "decrease",
                       "status" >>

Abs(x) == IF x < 0 THEN -x ELSE x

\* sum(abs(x) for x in input_data[:10])
RECURSIVE SumAbs(_)
SumAbs(f) == IF f = <<>> THEN 0 ELSE Abs(Head(f)) + SumAbs(Tail(f))

\* _process_classification (lines 434-457): confidence in ConfUnit,
\* all_scores in the order of the commands list, in ScoreUnit; 'model' is
\* the name of the active model.
process_classification(input_data, model_data_name) ==
  LET choice_idx == SumAbs(SubSeq(input_data, 1, Min(Len(input_data), 10)))
                      % Len(manager_commands)
  IN [is_none |-> FALSE,
      command |-> IF Len(input_data) > 0 THEN manager_commands[choice_idx + 1]
                  ELSE "unknown",
      confidence |-> IF Len(input_data) > 0
                     THEN (7 * ConfUnit) \div 10 + choice_idx * (ConfUnit \div 20)
                     ELSE ConfUnit \div 10,
      all_scores |-> [i \in 1..Len(manager_commands) |->
                        (ScoreUnit \div 10) + (i - 1) * (ScoreUnit \div 10)],
      model |-> model_data_name]

\* process_with_model (lines 378-411) with a list of integers and no
\* model_type.  It changes no field of the ModelManager.  With no active
\* model it returns None; with the classification model active it returns
\* the result of _process_classification, which is recorded; the results of
\* the processors of the other model types are not recorded.
process_with_model(input_data) ==
  /\ pc = "idle"
  /\ IF active_model # None /\ active_model_data # NoData
        /\ get_model_info(active_model).type = "classification"
     THEN /\ Len(class_log) < MaxCalls
          /\ class_log' = Append(class_log,
                                 [impl |-> "ModelManager", input |-> input_data,
                                  result |-> process_classification(
                                               input_data, active_model)])
     ELSE UNCHANGED class_log
  /\ UNCHANGED << manager_vars, compat_call, tasks, py_engine, intent_call, voice, stack,
                  engine_vars >>

\* ------------------------------------------------ LocalLLMStack._parse_intent
\* A text is the sequence of its characters.  The words the texts passed to
\* _parse_intent are made of: keywords in lower, mixed and upper case, words
\* that contain a keyword inside ("training", "aftermath") and a word that
\* contains none.
Fragments ==
  { << "w", "e", "a", "t", "h", "e", "r" >>,
    << "R", "a", "i", "n" >>,
    << "s", "u", "n", "n", "y" >>,
    << "n", "e", "w", "s" >>,
    << "T", "O", "D", "A", "Y" >>,
    << "c", "u", "r", "r", "e", "n", "t", " ", "e", "v", "e", "n", "t", "s" >>,
    << "c", "a", "l", "c", "u", "l", "a", "t", "e" >>,
    << "m", "a", "t", "h" >>,
    << "c", "o", "m", "p", "u", "t", "e" >>,
    << "h", "e", "l", "l", "o" >>,
    << "t", "r", "a", "i", "n", "i", "n", "g" >>,
    << "a", "f", "t", "e", "r", "m", "a", "t", "h" >> }

\* The texts: one word, or two words separated by a blank.
IntentTexts ==
  Fragments \cup { a \o << " " >> \o b : a \in Fragments, b \in Fragments }

\* str.lower() on the letters A-Z; every other character is kept.
UpperLetters == << "A", "B", "C", "D", "E", "F", "G", "H", "I", "J", "K", "L", "M",
                 "N", "O", "P", "Q", "R", "S", "T", "U", "V", "W", "X", "Y", "Z" >>
LowerLetters == << "a", "b", "c", "d", "e", "f", "g", "h", "i", "j", "k", "l", "m",
                 "n", "o", "p", "q", "r", "s", "t", "u", "v", "w", "x", "y", "z" >>
LowerChar(c) ==
  IF \E i \in 1..Len(UpperLetters) : UpperLetters[i] = c
  THEN LowerLetters[CHOOSE i \in 1..Len(UpperLetters) : UpperLetters[i] = c]
  ELSE c
Lower(text) == [i \in 1..Len(text) |-> LowerChar(text[i])]

\* word in text: text starts with word, or the rest of text contains it.
StartsWith(text, word) ==
  /\ Len(word) <= Len(text)
  /\ SubSeq(text, 1, Len(word)) = word
RECURSIVE Contains(_, _)
Contains(text, word) ==
  IF Len(text) < Len(word) THEN FALSE
  ELSE StartsWith(text, word) \/ Contains(Tail(text), word)

\* The keyword lists of _parse_intent (lines 227, 234, 241).
weather_words == { << "w", "e", "a", "t", "h", "e", "r" >>,
                  << "t", "e", "m", "p", "e", "r", "a", "t", "u", "r", "e" >>,
                  << "r", "a", "i", "n" >>,
                  << "s", "u", "n", "n", "y" >> }
news_words == { << "n", "e", "w", "s" >>,
               << "c", "u", "r", "r", "e", "n", "t", " ", "e", "v", "e", "n", "t", "s" >>,
               << "t", "o", "d", "a", "y" >> }
calculation_words == { << "c", "a", "l", "c", "u", "l", "a", "t", "e" >>,
                      << "m", "a", "t", "h" >>,
                      << "c", "o", "m", "p", "u", "t", "e" >> }

\* IntentResult; the confidence is counted in tenths.
IntentResult(intent, confidence, requires_external) ==
  [intent |-> intent, confidence |-> confidence, entities |-> {},
   requires_external |-> requires_external]

\* Variant of _parse_intent that looks for the news keywords first.
ParseIntentNewsFirst(text) ==
  LET text_lower == Lower(text) IN
  IF \E word \in news_words : Contains(text_lower, word)
  THEN IntentResult("news_query", 8, TRUE)
  ELSE IF \E word \in weather_words : Contains(text_lower, word)
  THEN IntentResult("weather_query", 8, TRUE)
  ELSE IF \E word \in calculation_words : Contains(text_lower, word)
  THEN IntentResult("calculation", 9, FALSE)
  ELSE IntentResult("general_conversation", 7, FALSE)

\* _parse_intent (lines 219-254).
parse_intent(text) ==
  LET text_lower == Lower(text) IN
  IF \E word \in weather_words : Contains(text_lower, word)
  THEN IntentResult("weather_query", 8, TRUE)
  ELSE IF \E word \in news_words : Contains(text_lower, word)
  THEN IntentResult("news_query", 8, TRUE)
  ELSE IF \E word \in calculation_words : Contains(text_lower, word)
  THEN IntentResult("calculation", 9, FALSE)
  ELSE IntentResult("general_conversation", 7, FALSE)

\* A call of _parse_intent; it changes no field of the LocalLLMStack.
ParseIntent(text) ==
  /\ pc = "idle"
  /\ intent_call' = [op |-> "parse_intent", text |-> text,
                     result |-> parse_intent(text)]
  /\ UNCHANGED << manager_vars, compat_call, class_log, tasks, py_engine,
                  voice, stack, engine_vars >>

\* ------------------------------------------ the desktop InferenceEngine
\* The name, size (MB) and required_memory (MB) of the first two entries of
\* get_default_model_catalog (python/ethervoxai/model_manager.py:95-126).
py_model_catalog ==
  << [name |-> "tinyllama-1.1b-chat-q4", size |-> 669,
      required_memory |-> 1024],
     [name |-> "phi-2-2.7b-q4", size |-> 1600, required_memory |-> 2048] >>

\* Names passed to initialize: the two models and one the catalog lacks.
PyNames == {"tinyllama-1.1b-chat-q4", "phi-2-2.7b-q4", "no-such-model"}

\* Available memory (MB) the detector reports: enough for the first model
\* only, and enough for both.
PyMemory == {2000, 8000}

\* The fields of the engine that its methods read and write.
Fields(e) == [is_initialized |-> e.is_initialized,
              current_model |-> e.current_model, model_path |-> e.model_path]

\* A completed call: what it raised ("ok" for a normal return) and the
\* fields when it was called and when it returned.
Completed(op, arg, raised, before, after) ==
  [op |-> op, arg |-> arg, raised |-> raised, before |-> before,
   after |-> after]

\* What initialize raises before it assigns any field (lines 87-101):
\* ValueError for a name the catalog lacks, RuntimeError for a model that
\* is not compatible, the exception of model_manager.get_model_path when the
\* download fails (path_ok false); "ok" when it goes on to line 102.
initialize_raises(name, available, path_ok) ==
  LET known == \E i \in 1..Len(py_model_catalog) :
                 py_model_catalog[i].name = name
      model_info == py_model_catalog[
                      CHOOSE i \in 1..Len(py_model_catalog) :
                        py_model_catalog[i].name = name]
  IN IF ~known THEN "ValueError"
     ELSE IF ~detector_check_model_compatibility(
                model_info.size, model_info.required_memory,
                available).is_compatible
     THEN "RuntimeError"
     ELSE IF ~path_ok THEN "DownloadError"
     ELSE "ok"

\* initialize up to the await of asyncio.sleep (lines 80-108).  The name is
\* looked up, the compatibility is checked and the path is fetched; each of
\* the three can raise, before any field is assigned.  path_ok is whether
\* model_manager.get_model_path returns (the download can fail).
PyInitialize(name, available, path_ok) ==
  /\ pc = "idle"
  /\ py_engine.pc = "idle"
  /\ LET before == Fields(py_engine)
         raised == initialize_raises(name, available, path_ok)
     IN IF raised # "ok"
        THEN py_engine' = [py_engine EXCEPT
                             !.last = Completed("initialize", name, raised,
                                                before, before)]
        ELSE py_engine' = [py_engine EXCEPT
                             !.model_path = name, !.current_model = name,
                             !.pc = "loading", !.arg = name,
                             !.before = before]
  /\ UNCHANGED << manager_vars, compat_call, class_log, tasks, intent_call, voice, stack,
                  engine_vars >>

\* The end of initialize (lines 108-114): asyncio.sleep returns and the
\* engine is marked initialized, or the task is cancelled while it waits
\* (asyncio.wait_for with a timeout, Task.cancel) and CancelledError leaves
\* initialize at the await.
PyInitializeEnd ==
  /\ pc = "idle"
  /\ py_engine.pc = "loading"
  /\ \E cancelled \in BOOLEAN :
       LET e == [py_engine EXCEPT
                   !.is_initialized = IF cancelled THEN @ ELSE TRUE,
                   !.pc = "idle", !.arg = NoModel,
                   !.before = [op |-> "none"]]
       IN py_engine' =
            [e EXCEPT !.last = Completed("initialize", py_engine.arg,
                                         IF cancelled THEN "CancelledError"
                                         ELSE "ok",
                                         py_engine.before, Fields(e)),
                      !.initialized_since_unload =
                        IF cancelled THEN @ ELSE TRUE]
  /\ UNCHANGED << manager_vars, compat_call, class_log, tasks, intent_call, voice, stack,
                  engine_vars >>

\* complete (lines 125-156) and complete_streaming iterated (lines 158-180):
\* RuntimeError when the engine is not initialized, a response otherwise;
\* no field is assigned.  Another coroutine can call them while initialize
\* waits.
PyComplete(op) ==
  /\ pc = "idle"
  /\ py_engine' = [py_engine EXCEPT
                     !.last = Completed(op, NoModel,
                                        IF py_engine.is_initialized THEN "ok"
                                        ELSE "RuntimeError",
                                        Fields(py_engine), Fields(py_engine))]
  /\ UNCHANGED << manager_vars, compat_call, class_log, tasks, intent_call, voice, stack,
                  engine_vars >>

\* unload_model (lines 190-203).
PyUnloadModel ==
  /\ pc = "idle"
  /\ LET e == IF py_engine.is_initialized
              THEN [py_engine EXCEPT !.current_model = NoModel,
                                     !.model_path = NoModel,
                                     !.is_initialized = FALSE]
              ELSE py_engine
     IN py_engine' =
          [e EXCEPT !.last = Completed("unload_model", NoModel, "ok",
                                       Fields(py_engine), Fields(e)),
                    !.initialized_since_unload = FALSE]
  /\ UNCHANGED << manager_vars, compat_call, class_log, tasks, intent_call, voice, stack,
                  engine_vars >>

\* ------------------------------------------------ the desktop LocalLLMStack
\* The LocalLLMStack drives the module-level inference_engine.  Its calls
\* are made one after the other: a call that is suspended in
\* inference_engine.initialize ends before the next call starts.

\* The other variables are left alone by the LocalLLMStack.
stack_frame == UNCHANGED << manager_vars, compat_call, class_log, tasks,
                            intent_call, voice, engine_vars >>

\* Available memory (MB) the detector reports: too little for any model,
\* enough for the first model only, enough for both.
StackMemory == {500, 2000, 8000}

\* capabilities.performance_tier, as far as _get_model_priority looks at it.
StackTiers == {"medium", "ultra"}

\* Arguments of initialize: no preferred model, or one of PyNames; and the
\* privacy modes, with one that is none of the three the stack knows.
PreferredModels == PyNames \cup {NoModel}
PrivacyModes == {"strict", "balanced", "permissive", "relaxed"}

\* The catalog entry of a name, and whether the detector finds the model
\* compatible (the name is in the catalog).
catalog_entry(name) ==
  py_model_catalog[CHOOSE i \in 1..Len(py_model_catalog) :
                     py_model_catalog[i].name = name]
in_catalog(name) ==
  \E i \in 1..Len(py_model_catalog) : py_model_catalog[i].name = name
is_compatible(name, available) ==
  detector_check_model_compatibility(catalog_entry(name).size,
                                     catalog_entry(name).required_memory,
                                     available).is_compatible

\* model_manager.get_recommended_models (model_manager.py:175-195): the
\* compatible models of the catalog; _get_model_priority (lines 329-336)
\* puts the largest first on an 'ultra' system and the smallest first on
\* the others.  _select_optimal_model (lines 204-217) takes the first;
\* NoModel stands for its RuntimeError when there is none.
select_optimal_model(tier, available) ==
  LET recommended == { i \in 1..Len(py_model_catalog) :
                         is_compatible(py_model_catalog[i].name, available) }
      priority(i) == IF tier = "ultra" THEN 0 - py_model_catalog[i].size
                     ELSE py_model_catalog[i].size
  IN IF recommended = {} THEN NoModel
     ELSE py_model_catalog[CHOOSE i \in recommended :
                             \A j \in recommended :
                               priority(i) <= priority(j)].name

\* The fields of the stack and of the engine when a call of the stack
\* returned or raised.
StackCompleted(op, arg, raised, st, e) ==
  [op |-> op, arg |-> arg, raised |-> raised,
   is_initialized |-> st.is_initialized, current_model |-> st.current_model,
   privacy_mode |-> st.privacy_mode, engine |-> Fields(e)]

\* inference_engine.initialize(name) up to its sleep, on the engine e (lines
\* 80-108 of inference_engine.py).
engine_loading(e, name) ==
  [e EXCEPT !.model_path = name, !.current_model = name, !.pc = "loading",
            !.arg = name, !.before = Fields(e)]

\* inference_engine.initialize(name) that raised `raised` on the engine e.
engine_raised(e, name, raised) ==
  [e EXCEPT !.last = Completed("initialize", name, raised, Fields(e),
                               Fields(e))]

\* inference_engine.unload_model on the engine e (lines 190-203).
engine_unloaded(e) ==
  LET u == IF e.is_initialized
           THEN [e EXCEPT !.current_model = NoModel, !.model_path = NoModel,
                          !.is_initialized = FALSE]
           ELSE e
  IN [u EXCEPT !.last = Completed("unload_model", NoModel, "ok", Fields(e),
                                  Fields(u)),
               !.initialized_since_unload = FALSE]

\* LocalLLMStack.initialize (lines 64-103) up to the sleep inside
\* inference_engine.initialize.  _current_model is assigned (lines 86-95)
\* before the engine is initialized (line 98).
stack_initialize(preferred_model, privacy_mode, tier, available, path_ok) ==
  /\ pc = "idle"
  /\ stack.pc = "idle"
  /\ py_engine.pc = "idle"
  /\ LET st == [stack EXCEPT !.privacy_mode = privacy_mode,
                             !.preferred_model = preferred_model]
         use_preferred == /\ preferred_model # NoModel
                          /\ in_catalog(preferred_model)
                          /\ is_compatible(preferred_model, available)
         chosen == IF use_preferred THEN preferred_model
                   ELSE select_optimal_model(tier, available)
         st2 == [st EXCEPT !.current_model = chosen]
         raised == initialize_raises(chosen, available, path_ok)
     IN IF chosen = NoModel
        THEN /\ stack' = [st EXCEPT !.last =
                            StackCompleted("initialize", preferred_model,
                                           "RuntimeError", st, py_engine)]
             /\ UNCHANGED py_engine
        ELSE IF raised # "ok"
        THEN /\ py_engine' = engine_raised(py_engine, chosen, raised)
             /\ stack' = [st2 EXCEPT !.last =
                            StackCompleted("initialize", preferred_model,
                                           raised, st2, py_engine)]
        ELSE /\ py_engine' = engine_loading(py_engine, chosen)
             /\ stack' = [st2 EXCEPT !.pc = "initialize", !.arg = chosen]
  /\ stack_frame

\* switch_model (lines 169-191) up to the sleep inside
\* inference_engine.initialize: the catalog lookup and the compatibility
\* check raise before anything is touched; then the engine is unloaded
\* (line 187) and initialized with the new model (line 188).
switch_model(name, available, path_ok) ==
  /\ pc = "idle"
  /\ stack.pc = "idle"
  /\ py_engine.pc = "idle"
  /\ LET raised == initialize_raises(name, available, path_ok)
         unloaded == engine_unloaded(py_engine)
     IN IF raised \in {"ValueError", "RuntimeError"}
        THEN /\ stack' = [stack EXCEPT !.last =
                            StackCompleted("switch_model", name, raised,
                                           stack, py_engine)]
             /\ UNCHANGED py_engine
        ELSE IF raised # "ok"
        THEN /\ py_engine' = engine_raised(unloaded, name, raised)
             /\ stack' = [stack EXCEPT !.last =
                            StackCompleted("switch_model", name, raised,
                                           stack, unloaded)]
        ELSE /\ py_engine' = engine_loading(unloaded, name)
             /\ stack' = [stack EXCEPT !.pc = "switch_model",
                                       !.arg = name]
  /\ stack_frame

\* The end of the suspended call: inference_engine.initialize returns (or
\* the task is cancelled during its sleep), then initialize sets
\* _is_initialized (line 100) and switch_model sets _current_model (line
\* 190); a cancelled call executes neither.
stack_resume(cancelled) ==
  /\ pc = "idle"
  /\ stack.pc # "idle"
  /\ py_engine.pc = "loading"
  /\ LET e == [py_engine EXCEPT
                 !.is_initialized = IF cancelled THEN @ ELSE TRUE,
                 !.pc = "idle", !.arg = NoModel, !.before = [op |-> "none"]]
         e2 == [e EXCEPT !.last = Completed("initialize", py_engine.arg,
                                            IF cancelled THEN "CancelledError"
                                            ELSE "ok",
                                            py_engine.before, Fields(e)),
                         !.initialized_since_unload =
                           IF cancelled THEN @ ELSE TRUE]
         st == IF cancelled THEN stack
               ELSE IF stack.pc = "initialize"
               THEN [stack EXCEPT !.is_initialized = TRUE]
               ELSE [stack EXCEPT !.current_model = stack.arg]
     IN /\ py_engine' = e2
        /\ stack' = [st EXCEPT !.pc = "idle", !.arg = NoModel,
                               !.last = StackCompleted(
                                          stack.pc, stack.arg,
                                          IF cancelled THEN "CancelledError"
                                          ELSE "ok", st, e2)]
  /\ stack_frame

\* cleanup (lines 194-200).
stack_cleanup ==
  /\ pc = "idle"
  /\ stack.pc = "idle"
  /\ py_engine.pc = "idle"
  /\ IF stack.is_initialized
     THEN /\ py_engine' = engine_unloaded(py_engine)
          /\ stack' = [stack EXCEPT
                         !.is_initialized = FALSE,
                         !.last = StackCompleted(
                                    "cleanup", NoModel, "ok",
                                    [stack EXCEPT !.is_initialized = FALSE],
                                    engine_unloaded(py_engine))]
     ELSE /\ stack' = [stack EXCEPT !.last =
                         StackCompleted("cleanup", NoModel, "ok", stack,
                                        py_engine)]
          /\ UNCHANGED py_engine
  /\ stack_frame

\* The queries: the one-word texts.
QueryTexts == Fragments

\* Variant of the choice of process_query that looks at the intent only.
StrategyByIntentOnly(privacy_mode, requires_external) ==
  IF requires_external THEN "with_external" ELSE "locally"

\* The choice of process_query among _process_locally,
\* _process_with_fallback and _process_with_external (lines 121-132).
processing_strategy(privacy_mode, requires_external) ==
  IF privacy_mode = "strict" \/ ~requires_external THEN "locally"
  ELSE IF privacy_mode = "balanced" /\ requires_external
  THEN "with_fallback"
  ELSE IF privacy_mode = "permissive" /\ requires_external
  THEN "with_external"
  ELSE "locally"

\* The ProcessingResponse of _process_locally (lines 256-277), as far as it
\* depends on the stack; the confidence is counted in hundredths.
process_locally(st) ==
  [confidence |-> 85, source |-> "local", model |-> st.current_model,
   privacy_level |-> "local"]

\* _process_with_fallback (lines 279-300): the local response, whose
\* confidence is never below 0.7.
process_with_fallback(st) ==
  LET response == process_locally(st) IN response

\* _process_with_external (lines 302-317): the local response, relabelled.
process_with_external(st) ==
  [process_locally(st) EXCEPT !.source = "hybrid", !.privacy_level = "cloud"]

\* process_query (lines 110-138).  It raises RuntimeError when the stack is
\* not initialized (line 112), and so does inference_engine.complete,
\* called on every path, when the engine is not (inference_engine.py:132).
process_query(text) ==
  /\ pc = "idle"
  /\ stack.pc = "idle"
  /\ py_engine.pc = "idle"
  /\ LET intent_result == parse_intent(text)
         strategy == processing_strategy(stack.privacy_mode,
                                         intent_result.requires_external)
         raised == IF ~stack.is_initialized \/ ~py_engine.is_initialized
                   THEN "RuntimeError" ELSE "ok"
         response == CASE strategy = "locally" -> process_locally(stack)
                       [] strategy = "with_fallback" ->
                            process_with_fallback(stack)
                       [] strategy = "with_external" ->
                            process_with_external(stack)
     IN stack' = [stack EXCEPT !.last =
                    [op |-> "process_query", text |-> text,
                     privacy_mode |-> stack.privacy_mode,
                     intent |-> intent_result, raised |-> raised,
                     response |-> response]]
  /\ UNCHANGED py_engine
  /\ stack_frame

\* ----------------------------------- one ModelManager shared by two callers
\* load_model (lines 243-300) and _add_to_cache (lines 338-353) take no
\* lock.  When the callers are threads, a caller can be switched out between
\* any two statements; each action below is one statement (or one test) of
\* one caller.  The loader succeeds here and every name is compatible; the
\* failing paths are those of the single-caller actions above.
SharedNames == {"wake-word-tiny", "command-classifier", "vad-micro"}

\* The caller's step runs while another call is in progress.
Overlaps(c) == \E o \in Callers \ {c} : tasks[o].pc # "idle"

\* Variant of the scheduling: a call runs to completion before another
\* caller's call starts (callers are coroutines of one event loop, and
\* load_model is a plain function).
StartsWhenNoCallRuns(c) == ~Overlaps(c)

\* Scheduling of threads: a caller may start a call at any time.
StartsAnyTime(c) == TRUE

\* The caller leaves its load_model(name) call with return value ret.
ReturnFrom(c, name, ret) ==
  [tasks EXCEPT ![c] = [pc |-> "idle", model_name |-> None,
                        model_data |-> NoData, ret |-> ret,
                        held |-> /\ InCache(loaded_models, name)
                                 /\ active_model = name]]

\* Lines 245-257: the test of the active model and the compatibility check.
SharedCall(c, name) ==
  /\ pc = "idle"
  /\ tasks[c].pc = "idle"
  /\ StartsAnyTime(c)
  /\ IF name = active_model
     THEN tasks' = ReturnFrom(c, name, "True")
     ELSE IF ~check_model_compatibility(name, mem_free, max_model_size,
                                        performance_tier).compatible
     THEN tasks' = ReturnFrom(c, name, "False")
     ELSE tasks' = [tasks EXCEPT ![c].pc = "unload",
                                 ![c].model_name = name,
                                 ![c].ret = "none", ![c].held = FALSE]
  /\ UNCHANGED << manager_vars, compat_call, class_log, py_engine,
                  intent_call, voice, stack, engine_vars >>

\* Lines 260-261: if self.active_model: self._unload_current_model().
SharedUnload(c) ==
  /\ tasks[c].pc = "unload"
  /\ active_model' = None
  /\ active_model_data' = NoData
  /\ tasks' = [tasks EXCEPT ![c].pc = "lookup"]
  /\ UNCHANGED << max_model_size, performance_tier, loaded_models, mem_free,
                  pc, model_name, model_data, loader_calls, use_order,
                  evicted, last_victim, call, last_call, prev_call,
                  compat_call, class_log, py_engine, intent_call, voice, stack,
                  engine_vars >>

\* Lines 264-276: the cache test; on a hit the entry moves to the end, on a
\* miss _load_model_from_file builds a new model_data object.
SharedLookup(c) ==
  /\ tasks[c].pc = "lookup"
  /\ IF InCache(loaded_models, tasks[c].model_name)
     THEN /\ loaded_models' = MoveToEnd(loaded_models, tasks[c].model_name)
          /\ tasks' = [tasks EXCEPT ![c].pc = "activate",
                                    ![c].model_data =
                                      DictGet(loaded_models,
                                              tasks[c].model_name)]
          /\ UNCHANGED loader_calls
     ELSE /\ loader_calls < MaxLoads
          /\ loader_calls' = loader_calls + 1
          /\ tasks' = [tasks EXCEPT ![c].pc = "evict",
                                    ![c].model_data = loader_calls + 1]
          /\ UNCHANGED loaded_models
  /\ UNCHANGED << max_model_size, performance_tier, active_model,
                  active_model_data, mem_free, pc, model_name, model_data,
                  use_order, evicted, last_victim, call, last_call, prev_call,
                  compat_call, class_log, py_engine, intent_call, voice, stack,
                  engine_vars >>

\* Lines 341-350: one test of the while loop of _add_to_cache, and the pop
\* of the oldest entry when the test succeeds.
SharedEvict(c) ==
  /\ tasks[c].pc = "evict"
  /\ IF CacheFull(loaded_models)
     THEN /\ loaded_models' = Tail(loaded_models)
          /\ UNCHANGED tasks
     ELSE /\ tasks' = [tasks EXCEPT ![c].pc = "insert"]
          /\ UNCHANGED loaded_models
  /\ UNCHANGED << max_model_size, performance_tier, active_model,
                  active_model_data, mem_free, pc, model_name, model_data,
                  loader_calls, use_order, evicted, last_victim, call,
                  last_call, prev_call, compat_call, class_log, py_engine,
                  intent_call, voice, stack, engine_vars >>

\* Line 353: self.loaded_models[model_name] = model_data.
SharedInsert(c) ==
  /\ tasks[c].pc = "insert"
  /\ loaded_models' = DictSet(loaded_models, tasks[c].model_name,
                              tasks[c].model_data)
  /\ tasks' = [tasks EXCEPT ![c].pc = "activate"]
  /\ UNCHANGED << max_model_size, performance_tier, active_model,
                  active_model_data, mem_free, pc, model_name, model_data,
                  loader_calls, use_order, evicted, last_victim, call,
                  last_call, prev_call, compat_call, class_log, py_engine,
                  intent_call, voice, stack, engine_vars >>

\* Line 285: self.active_model = model_name.
SharedSetActive(c) ==
  /\ tasks[c].pc = "activate"
  /\ active_model' = tasks[c].model_name
  /\ tasks' = [tasks EXCEPT ![c].pc = "activate_data"]
  /\ UNCHANGED << max_model_size, performance_tier, loaded_models,
                  active_model_data, mem_free, pc, model_name, model_data,
                  loader_calls, use_order, evicted, last_victim, call,
                  last_call, prev_call, compat_call, class_log, py_engine,
                  intent_call, voice, stack, engine_vars >>

\* Line 286: self.active_model_data = self.loaded_models[model_name]; the
\* KeyError of a name that is no longer in the cache is caught at line 298
\* and load_model returns False.
SharedSetActiveData(c) ==
  /\ tasks[c].pc = "activate_data"
  /\ IF InCache(loaded_models, tasks[c].model_name)
     THEN /\ active_model_data' = DictGet(loaded_models, tasks[c].model_name)
          /\ tasks' = [tasks EXCEPT ![c].pc = "return"]
     ELSE /\ tasks' = ReturnFrom(c, tasks[c].model_name, "False")
          /\ UNCHANGED active_model_data
  /\ UNCHANGED << max_model_size, performance_tier, loaded_models,
                  active_model, mem_free, pc, model_name, model_data,
                  loader_calls, use_order, evicted, last_victim, call,
                  last_call, prev_call, compat_call, class_log, py_engine,
                  intent_call, voice, stack, engine_vars >>

\* Lines 288-296: the memory bookkeeping and return True.
SharedReturn(c) ==
  /\ tasks[c].pc = "return"
  /\ tasks' = ReturnFrom(c, tasks[c].model_name, "True")
  /\ UNCHANGED << manager_vars, compat_call, class_log, py_engine,
                  intent_call, voice, stack, engine_vars >>

\* ------------------------------------------------ the desktop VoiceProcessor
\* The coroutines of the VoiceProcessor run on one asyncio event loop: a
\* coroutine runs without interruption from one await that suspends to the
\* next, and any other coroutine may run in between.  stop_detection,
\* start_detection and transcribe_audio contain no await that suspends.

\* The other variables are left alone by the VoiceProcessor.
voice_frame == UNCHANGED << manager_vars, compat_call, class_log, tasks,
                            py_engine, intent_call, stack, engine_vars >>

\* start (lines 334-347).
voice_start ==
  /\ voice' = [voice EXCEPT !.state = LISTENING_FOR_WAKE_WORD,
                            !.is_listening = voice.deps,
                            !.started = TRUE, !.stopped = FALSE]
  /\ voice_frame

\* Variant of stop that also makes the suspended coroutines return without
\* touching the state when they resume.
StopCancelsPending ==
  /\ voice' = [voice EXCEPT !.state = IDLE, !.is_listening = FALSE,
                            !.is_recording = FALSE, !.is_speaking = FALSE,
                            !.rec = [t \in RecTasks |-> "idle"],
                            !.speak = "idle", !.stopped = TRUE]
  /\ voice_frame

\* stop (lines 349-355): stop_detection, _stop_recording, stop_speaking,
\* state = IDLE.  The coroutines suspended in _start_command_recording,
\* _process_command and speak_response are not cancelled.
voice_stop ==
  /\ voice' = [voice EXCEPT !.state = IDLE, !.is_listening = FALSE,
                            !.is_recording = FALSE, !.is_speaking = FALSE,
                            !.stopped = TRUE]
  /\ voice_frame

\* _on_wake_word_detected (lines 357-366) up to its first await that
\* suspends: the wake_word_callback of the caller if there is one and it
\* suspends, else the sleep of _start_command_recording (lines 368-374).
on_wake_word_detected(t, callback_suspends) ==
  /\ voice.rec[t] = "idle"
  /\ IF voice.state # LISTENING_FOR_WAKE_WORD
     THEN UNCHANGED voice
     ELSE IF callback_suspends
     THEN voice' = [voice EXCEPT !.rec[t] = "wake_word_callback"]
     ELSE voice' = [voice EXCEPT !.state = RECORDING_COMMAND,
                                 !.is_recording = voice.deps,
                                 !.rec[t] = "sleep"]
  /\ voice_frame

\* _start_command_recording from its start to the sleep (lines 368-374),
\* when the wake_word_callback has returned.
start_command_recording(t) ==
  /\ voice.rec[t] = "wake_word_callback"
  /\ voice' = [voice EXCEPT !.state = RECORDING_COMMAND,
                            !.is_recording = voice.deps,
                            !.rec[t] = "sleep"]
  /\ voice_frame

\* The last statement of _start_command_recording (line 381).
return_to_listening(v) == LISTENING_FOR_WAKE_WORD

\* _start_command_recording after the sleep (lines 375-381): _stop_recording
\* returns audio only if the recording was still on; with audio,
\* _process_command (lines 383-395) sets PROCESSING_SPEECH and awaits the
\* command_callback, which suspends or not.
command_recording_resume(t, has_audio, callback_suspends) ==
  /\ voice.rec[t] = "sleep"
  /\ has_audio => voice.is_recording
  /\ IF has_audio /\ callback_suspends
     THEN voice' = [voice EXCEPT !.state = PROCESSING_SPEECH,
                                 !.is_recording = FALSE,
                                 !.rec[t] = "command_callback"]
     ELSE voice' = [voice EXCEPT !.state = return_to_listening(voice),
                                 !.is_recording = FALSE,
                                 !.rec[t] = "idle"]
  /\ voice_frame

\* The command_callback has returned or raised: _process_command ends and
\* _start_command_recording executes its last statement (line 381).
process_command_resume(t) ==
  /\ voice.rec[t] = "command_callback"
  /\ voice' = [voice EXCEPT !.state = return_to_listening(voice),
                            !.rec[t] = "idle"]
  /\ voice_frame

\* Variant of speak_response's last statement: the state is put back only
\* if it is still SPEAKING, and to LISTENING_FOR_WAKE_WORD if the recording
\* it interrupted has ended.
RestoreIfStillSpeaking(v) ==
  IF v.state # SPEAKING THEN v.state
  ELSE IF v.previous_state \in {RECORDING_COMMAND, PROCESSING_SPEECH}
          /\ \A t \in RecTasks : v.rec[t] = "idle"
  THEN LISTENING_FOR_WAKE_WORD
  ELSE v.previous_state

\* The last statement of speak_response (line 469).
restore_previous_state(v) == v.previous_state

\* speak_response (lines 454-469) up to the await of tts.speak (lines
\* 224-250), which suspends only if there is a TTS engine; without one the
\* call goes through to its end.
speak_response(text) ==
  /\ voice.speak = "idle"
  /\ IF StripText(text) = ""
     THEN UNCHANGED voice
     ELSE IF voice.deps
     THEN voice' = [voice EXCEPT !.previous_state = voice.state,
                                 !.state = SPEAKING,
                                 !.is_speaking = TRUE,
                                 !.speak = "speaking"]
     ELSE voice' = [voice EXCEPT !.previous_state = voice.state,
                                 !.state = restore_previous_state(
                                   [voice EXCEPT !.previous_state = voice.state,
                                                 !.state = SPEAKING])]
  /\ voice_frame

\* tts.speak has returned (the engine finished or stop_speaking was called):
\* the end of speak_response (lines 464-469).
speak_response_resume ==
  /\ voice.speak = "speaking"
  /\ voice' = [voice EXCEPT !.state = restore_previous_state(voice),
                            !.is_speaking = FALSE,
                            !.speak = "idle"]
  /\ voice_frame

\* Command names passed to _generate_response on its own: one with a canned
\* response, one without, and the empty name.
ResponseCommands == {"help", "open_door", ""}

\* The engine next to a ModelManager that holds wake-word-tiny and
\* command-classifier (the second one active), as after load_model of the
\* two.  The history of ModelManager calls is not recorded here.
InitEngineSpec ==
  /\ max_model_size = 200
  /\ performance_tier = "medium"
  /\ mem_free = 250
  /\ loaded_models = << [name |-> "wake-word-tiny", data |-> 1],
                        [name |-> "command-classifier", data |-> 2] >>
  /\ active_model = "command-classifier"
  /\ active_model_data = 2
  /\ loader_calls = 2
  /\ use_order = <<"wake-word-tiny", "command-classifier">>
  /\ pc = "idle"
  /\ model_name = None
  /\ model_data = NoData
  /\ evicted = {}
  /\ last_victim = [name |-> None, data |-> NoData]
  /\ call = NoCall
  /\ last_call = NoCall
  /\ prev_call = NoCall
  /\ compat_call = NoCompat
  /\ InitEngine
  /\ InitAux

\* The pipeline: process_audio on every buffer with every fault, and the
\* response stage on its own.
NextPipeline ==
  \/ \E audio_data \in AudioInputs, fault \in Faults,
        elapsed \in NominalElapsed, memory_used \in NominalMemoryUsed :
       process_audio(audio_data, fault, elapsed, memory_used)
  \/ \E command \in ResponseCommands : generate_response_call(command)

SpecPipeline == InitEngineSpec /\ [][NextPipeline]_vars

\* Buffers of an array('h'): at least 100 samples, each in -32768..32767.
\* The samples of a buffer have one magnitude; the magnitude 32768 is the
\* buffer whose samples are all -32768, the loudest buffer there is.  24576
\* is the magnitude at which energy_db equals the threshold of _run_vad.
Int16AudioInputs ==
  { [n |-> n, amp |-> amp, alt |-> FALSE] :
      n \in {100, 125}, amp \in {0, 1000, 24576, 24577, 32767, 32768} }

\* process_audio on one buffer of 16-bit samples, no fault.
process_int16(audio_data) ==
  \E elapsed \in Elapsed, memory_used \in NominalMemoryUsed :
    process_audio(audio_data, "none", elapsed, memory_used)

\* A caller that feeds the engine buffers of 16-bit samples and resets the
\* counters from time to time.
NextInt16 ==
  \/ \E audio_data \in Int16AudioInputs : process_int16(audio_data)
  \/ reset_stats

\* The same caller, which goes on for ever and leaves no buffer out.
SpecInt16 ==
  /\ InitEngineSpec
  /\ [][NextInt16]_vars
  /\ WF_vars(reset_stats)
  /\ \A audio_data \in Int16AudioInputs : SF_vars(process_int16(audio_data))

\* reset_stats, called when no process_audio call is executing.
reset_stats_between_calls == ~Executing /\ reset_stats

\* process_audio in two steps, call after call, on every buffer and with
\* every fault; the engine is single-threaded, so nothing else runs while a
\* call is executing.
NextBusy ==
  \/ \E audio_data \in AudioInputs, fault \in Faults :
       process_audio_enter(audio_data, fault)
  \/ \E elapsed \in NominalElapsed, memory_used \in NominalMemoryUsed :
       process_audio_exit(elapsed, memory_used)
  \/ process_audio_empty
  \/ reset_stats_between_calls

SpecBusy == InitEngineSpec /\ [][NextBusy]_vars

\* The counters: every operation of the engine.
NextStats ==
  \/ \E audio_data \in StatsAudioInputs, fault \in StatsFaults,
        elapsed \in Elapsed, memory_used \in MemoryUsed :
       process_audio(audio_data, fault, elapsed, memory_used)
  \/ \E text_input \in Texts : process_text(text_input)
  \/ reset_stats
  \/ \E mode \in Modes : set_performance_mode(mode)
  \/ engine_cleanup

SpecStats == InitEngineSpec /\ [][NextStats]_vars

\* The classification stage of the engine and of the ModelManager, called
\* between operations that change the state of the two objects.
NextClassify ==
  \/ \E audio \in ClassAudioInputs : run_command_classification_call(audio)
  \/ \E input_data \in FeatureVectors : process_with_model(input_data)
  \/ \E audio_data \in BetweenAudioInputs, elapsed \in BetweenElapsed,
        memory_used \in NominalMemoryUsed :
       process_audio(audio_data, "none", elapsed, memory_used)
  \/ reset_stats
  \/ load_model("command-classifier")
  \/ unload_current_model

SpecClassify == InitEngineSpec /\ [][NextClassify]_vars

\* _parse_intent on every text.
NextIntent == \E text \in IntentTexts : ParseIntent(text)

SpecIntent == InitEngineSpec /\ [][NextIntent]_vars

\* The desktop InferenceEngine.
NextPyEngine ==
  \/ \E name \in PyNames, available \in PyMemory, path_ok \in BOOLEAN :
       PyInitialize(name, available, path_ok)
  \/ PyInitializeEnd
  \/ \E op \in {"complete", "complete_streaming"} : PyComplete(op)
  \/ PyUnloadModel

SpecPyEngine == InitEngineSpec /\ [][NextPyEngine]_vars

\* The LocalLLMStack: initialize (in the default privacy mode), switch_model
\* and cleanup, one call at a time, on systems of every size and with
\* downloads that succeed or fail.
NextStack ==
  \/ \E preferred_model \in PreferredModels, tier \in StackTiers,
        available \in StackMemory, path_ok \in BOOLEAN :
       stack_initialize(preferred_model, "strict", tier, available, path_ok)
  \/ \E name \in PyNames, available \in StackMemory, path_ok \in BOOLEAN :
       switch_model(name, available, path_ok)
  \/ \E cancelled \in BOOLEAN : stack_resume(cancelled)
  \/ stack_cleanup

SpecStack == InitEngineSpec /\ [][NextStack]_vars

\* The queries of a LocalLLMStack on a system with room for every model:
\* initialize in each privacy mode, switch_model, cleanup, and process_query
\* on every text.
NextQuery ==
  \/ \E privacy_mode \in PrivacyModes, path_ok \in BOOLEAN :
       stack_initialize(NoModel, privacy_mode, "medium", 8000, path_ok)
  \/ \E name \in PyNames, path_ok \in BOOLEAN :
       switch_model(name, 8000, path_ok)
  \/ \E cancelled \in BOOLEAN : stack_resume(cancelled)
  \/ stack_cleanup
  \/ \E text \in QueryTexts : process_query(text)

SpecQuery == InitEngineSpec /\ [][NextQuery]_vars

\* A VoiceProcessor right after construction, with or without the audio
\* packages, next to a ModelManager right after construction.
InitVoice ==
  /\ max_model_size = 200
  /\ performance_tier = "medium"
  /\ mem_free = 250
  /\ loaded_models = <<>>
  /\ active_model = None
  /\ active_model_data = NoData
  /\ pc = "idle"
  /\ model_name = None
  /\ model_data = NoData
  /\ loader_calls = 0
  /\ use_order = <<>>
  /\ evicted = {}
  /\ last_victim = [name |-> None, data |-> NoData]
  /\ call = NoCall
  /\ last_call = NoCall
  /\ prev_call = NoCall
  /\ compat_call = NoCompat
  /\ InitEngine
  /\ InitOtherAux
  /\ voice \in { NewVoiceProcessor(deps) : deps \in BOOLEAN }

\* start() has been called and stop() has not been called since.
Running == voice.started /\ ~voice.stopped

\* The application calls speak_response while the processor is running.
application_speaks(text) == Running /\ speak_response(text)

\* The calls of the application (start, stop, speak_response), the wake
\* word detections, and the resumption of each suspended coroutine.
NextVoice ==
  \/ voice_start
  \/ voice_stop
  \/ \E t \in RecTasks, callback_suspends \in BOOLEAN :
       on_wake_word_detected(t, callback_suspends)
  \/ \E t \in RecTasks : start_command_recording(t)
  \/ \E t \in RecTasks, has_audio \in BOOLEAN, callback_suspends \in BOOLEAN :
       command_recording_resume(t, has_audio, callback_suspends)
  \/ \E t \in RecTasks : process_command_resume(t)
  \/ \E text \in Texts : application_speaks(text)
  \/ speak_response_resume

SpecVoice == InitVoice /\ [][NextVoice]_vars

\* A ModelManager right after construction (default limits, 250 KB free),
\* shared by two callers.
InitShared ==
  /\ max_model_size = 200
  /\ performance_tier = "medium"
  /\ mem_free = 250
  /\ loaded_models = <<>>
  /\ active_model = None
  /\ active_model_data = NoData
  /\ pc = "idle"
  /\ model_name = None
  /\ model_data = NoData
  /\ loader_calls = 0
  /\ use_order = <<>>
  /\ evicted = {}
  /\ last_victim = [name |-> None, data |-> NoData]
  /\ call = NoCall
  /\ last_call = NoCall
  /\ prev_call = NoCall
  /\ compat_call = NoCompat
  /\ InitEngine
  /\ InitAux

NextShared ==
  \E c \in Callers :
    \/ \E name \in SharedNames : SharedCall(c, name)
    \/ SharedUnload(c)
    \/ SharedLookup(c)
    \/ SharedEvict(c)
    \/ SharedInsert(c)
    \/ SharedSetActive(c)
    \/ SharedSetActiveData(c)
    \/ SharedReturn(c)

SpecShared == InitShared /\ [][NextShared]_vars

\* A ModelManager right after construction, on any board and with any free
\* memory, and an unused engine.
InitCompat ==
  /\ max_model_size \in CompatMaxSizes
  /\ performance_tier \in { tier_order[i] : i \in 1..Len(tier_order) }
  /\ mem_free \in CompatMemLevels
  /\ loaded_models = <<>>
  /\ active_model = None
  /\ active_model_data = NoData
  /\ pc = "idle"
  /\ model_name = None
  /\ model_data = NoData
  /\ loader_calls = 0
  /\ use_order = <<>>
  /\ evicted = {}
  /\ last_victim = [name |-> None, data |-> NoData]
  /\ call = NoCall
  /\ last_call = NoCall
  /\ prev_call = NoCall
  /\ compat_call = NoCompat
  /\ InitEngine
  /\ InitAux

NextCompat ==
  \/ \E name \in CompatNames : CheckCompatibility(name)
  \/ \E name \in get_available_models : DetectorCheckCompatibility(name)

SpecCompat == InitCompat /\ [][NextCompat]_vars

\* ------------------------------------------------------------ specification
\* ModelManager.__init__ (lines 60-77) and an unused engine.
Init ==
  /\ max_model_size \in MaxModelSizes
  /\ performance_tier \in PerformanceTiers
  /\ loaded_models = <<>>
  /\ active_model = None
  /\ active_model_data = NoData
  /\ mem_free \in MemLevels
  /\ pc = "idle"
  /\ model_name = None
  /\ model_data = NoData
  /\ loader_calls = 0
  /\ use_order = <<>>
  /\ evicted = {}
  /\ last_victim = [name |-> None, data |-> NoData]
  /\ call = NoCall
  /\ last_call = NoCall
  /\ prev_call = NoCall
  /\ compat_call = NoCompat
  /\ InitEngine
  /\ InitAux

Next ==
  \/ \E name \in RequestNames : load_model(name)
  \/ LoadModelFromFile
  \/ AddToCacheEvict
  \/ AddToCacheInsert
  \/ unload_current_model
  \/ cleanup
  \/ MemChange

Spec == Init /\ [][Next]_vars

\* =================================================================== claims
\* Declared footprint of one cache entry and of the whole cache, in KB.
EntrySize(e) == get_model_info(e.name).size_kb

RECURSIVE SumSizes(_)
SumSizes(d) == IF d = <<>> THEN 0 ELSE EntrySize(Head(d)) + SumSizes(Tail(d))

\* Position of a name in use_order (1 = least recently used).
Pos(order, name) == CHOOSE i \in 1..Len(order) : order[i] = name

\* Every reference to a model_data object the manager holds: the cache
\* entries, the active model and the object of the load in flight.
LiveHandles ==
  { loaded_models[i] : i \in 1..Len(loaded_models) }
  \cup (IF active_model_data # NoData
        THEN {[name |-> active_model, data |-> active_model_data]} ELSE {})
  \cup (IF model_data # NoData
        THEN {[name |-> model_name, data |-> model_data]} ELSE {})

\* C1: the cache never holds more than max_loaded_models entries, in any
\* state, the states inside a load_model call included (the eviction loop
\* of _add_to_cache runs before the insertion).
C1_CacheBound == Len(loaded_models) <= max_loaded_models

\* C1 witness: a load that found the cache full has completed, and the
\* cache is full again.
C1_Witness ==
  /\ pc = "idle"
  /\ last_call.op = "load_model" /\ last_call.ret /\ last_call.loads = 1
  /\ Len(last_call.before_cache) = max_loaded_models
  /\ Len(loaded_models) = max_loaded_models

C3_EvictsLeastRecentlyUsed ==
  [][ (pc = "add_to_cache" /\ Len(loaded_models') < Len(loaded_models))
      => /\ Keys(loaded_models) \ Keys(loaded_models') # {}
         /\ \A e \in Keys(loaded_models) \ Keys(loaded_models') :
              \A r \in Keys(loaded_models') :
                 Pos(use_order, e) < Pos(use_order, r) ]_vars

\* C3 witness: an entry was evicted although an entry loaded from file
\* before it is still resident (the survivor was used again by a cache hit).
C3_Witness ==
  /\ last_victim.name # None
  /\ \E i \in 1..Len(loaded_models) : loaded_models[i].data < last_victim.data

\* C4: the manager never holds two different model_data objects for one
\* name, and the cache has one entry per name.
C4_OneCopyPerName ==
  /\ Cardinality(Keys(loaded_models)) = Len(loaded_models)
  /\ \A h1 \in LiveHandles : \A h2 \in LiveHandles :
        h1.name = h2.name => h1.data = h2.data

\* C4 witness: load_model of a name that was resident but not active has
\* completed.
C4_Witness ==
  /\ pc = "idle"
  /\ last_call.op = "load_model" /\ last_call.ret
  /\ last_call.name \in Keys(last_call.before_cache)
  /\ last_call.name # last_call.before_active

\* C5: of two load_model calls of the same name in a row, when the first
\* succeeds the second succeeds too, returns the same model_data object
\* and does not invoke the loader (at most one invocation over both).
C5_LoadTwiceSameInstance ==
  ( /\ prev_call.op = "load_model" /\ last_call.op = "load_model"
    /\ prev_call.name = last_call.name
    /\ prev_call.ret )
  => /\ last_call.ret
     /\ last_call.data = prev_call.data
     /\ last_call.loads = 0
     /\ prev_call.loads + last_call.loads <= 1

\* C5 witness: the second call was made when free memory had dropped below
\* every model's requirement.
C5_Witness ==
  /\ prev_call.op = "load_model" /\ last_call.op = "load_model"
  /\ prev_call.name = last_call.name
  /\ prev_call.ret /\ prev_call.loads = 1
  /\ last_call.before_mem = 10

\* C6 (as claimed): a successful load_model(name) right after the unload
\* of name invokes the loader and yields a model_data object other than
\* the one that was active before the unload.
C6_UnloadThenFreshLoad ==
  ( /\ prev_call.op = "unload" /\ prev_call.name # None
    /\ last_call.op = "load_model" /\ last_call.name = prev_call.name
    /\ last_call.ret )
  => /\ last_call.loads = 1
     /\ last_call.data # prev_call.before_data

C8_ResidentLoadSucceeds ==
  ( /\ last_call.op = "load_model"
    /\ last_call.name \in Keys(last_call.before_cache) )
  => /\ last_call.ret
     /\ last_call.loads = 0

\* A name the catalog does not know, or a model whose min_memory_kb is
\* more than the free memory.
UnknownOrTooBig(name, free) ==
  \/ name \notin get_available_models
  \/ get_model_info(name).min_memory_kb > free

\* C9: load_model of an unknown model, or of a model that needs more than
\* the free memory (and is not the active model), returns False and leaves
\* the cache, its order, the active model and the loader untouched.
C9_FailedCheckChangesNothing ==
  ( /\ pc = "idle"
    /\ last_call.op = "load_model"
    /\ last_call.name # last_call.before_active
    /\ UnknownOrTooBig(last_call.name, last_call.before_mem) )
  => /\ ~last_call.ret
     /\ loaded_models = last_call.before_cache
     /\ active_model = last_call.before_active
     /\ active_model_data = last_call.before_data
     /\ last_call.loads = 0

\* C9 witness: such a call has failed while the cache was full and a model
\* was active.
C9_Witness ==
  /\ pc = "idle"
  /\ last_call.op = "load_model"
  /\ last_call.name # last_call.before_active
  /\ UnknownOrTooBig(last_call.name, last_call.before_mem)
  /\ Len(loaded_models) = max_loaded_models
  /\ active_model # None

\* C10 (as claimed): two load_model calls that fail for different causes
\* return different values to the caller.
C10_CauseIsReported ==
  ( /\ prev_call.op = "load_model" /\ last_call.op = "load_model"
    /\ prev_call.cause \in {"incompatible", "load_failure"}
    /\ last_call.cause \in {"incompatible", "load_failure"}
    /\ prev_call.cause # last_call.cause )
  => prev_call.ret # last_call.ret

\* ---------------------------------------------------------------- C11, C12
\* Overhead factors (in tenths) a configuration could choose: 1.0, 1.5, 3.0.
OverheadTenths == {10, 15, 30}

\* Ten times max(minimum_memory, footprint x overhead_factor).
RequiredTenths(info, f) ==
  IF info.size_kb * f > 10 * info.min_memory_kb
  THEN info.size_kb * f ELSE 10 * info.min_memory_kb

\* The last check was made by the ModelManager for a catalog model.
ManagerChecked ==
  /\ compat_call.impl = "ModelManager"
  /\ compat_call.name \in get_available_models

C12_ImpactFollowsMemoryRatio ==
  ManagerChecked =>
    LET r == compat_call.result
        free == compat_call.available_memory IN
      r.performance_impact =
        IF 10 * r.memory_required > 8 * free THEN "high"
        ELSE IF 10 * r.memory_required > 5 * free THEN "medium"
        ELSE "low"

\* Position of a tier in the order low < medium < high < ultra.
TierRank == [low |-> 1, medium |-> 2, high |-> 3, ultra |-> 4]

\* C12 (amended): performance_impact of a compatible result compares the
\* model's required tier with the system's tier (above: high, equal: medium,
\* below: low), whatever the memory ratio; every refusal of a catalog model
\* has impact high and an unknown model has impact unknown.
C12_ImpactFollowsTier ==
  compat_call.impl = "ModelManager" =>
    LET r == compat_call.result IN
      IF compat_call.name \notin get_available_models
      THEN r.performance_impact = "unknown"
      ELSE IF ~r.compatible THEN r.performance_impact = "high"
      ELSE LET need == TierRank[get_model_info(compat_call.name).performance_tier]
               have == TierRank[performance_tier] IN
        r.performance_impact =
          IF need > have THEN "high"
          ELSE IF need = have THEN "medium" ELSE "low"

\* C12 witness: wake-word-tiny (low tier, 20 KB) accepted on a medium system
\* with 20 KB free: the ratio is 1.0 and the impact is low.
C12_Witness ==
  /\ ManagerChecked
  /\ compat_call.name = "wake-word-tiny"
  /\ compat_call.available_memory = 20
  /\ performance_tier = "medium"
  /\ compat_call.result.compatible
  /\ compat_call.result.performance_impact = "low"

\* ------------------------------------------------------------ C13 .. C18
\* The last engine call was process_audio with a non-empty buffer.
RunDone == last_run.op = "process_audio" /\ last_run.audio.n > 0

\* The last run returned a verdict of the stages (not outcome error).
Verdict == RunDone /\ last_run.result.result_type # "error"

\* The names in a sequence of stages.
Ran(stage) == \E i \in 1..Len(last_run.stages) : last_run.stages[i] = stage

\* C13: when the VAD stage reports no voice, process_audio returns the
\* VAD-negative result ('vad') with the VAD confidence, no later stage runs
\* and the ModelManager receives no call during the run.
C13_VadNegativeShortCircuits ==
  (RunDone /\ ~last_run.vad.voice_detected) =>
    /\ last_run.stages = <<"vad">>
    /\ last_run.cache_calls = <<>>
    /\ Verdict => /\ last_run.result.result_type = "vad"
                  /\ last_run.result.success
                  /\ last_run.result.confidence = last_run.vad.confidence

\* C13 witness: a full-scale 16-bit buffer is rejected by the VAD with
\* confidence 0.24997 (1023875 units).
C13_Witness ==
  /\ RunDone
  /\ last_run.audio = [n |-> 125, amp |-> 32767, alt |-> FALSE]
  /\ last_run.fault = "none"
  /\ ~last_run.vad.voice_detected
  /\ last_run.result.result_type = "vad"
  /\ last_run.result.confidence = 1023875
  /\ last_run.stages = <<"vad">>

\* The order of the stages.
StageOrder == <<"vad", "wake_word", "classification", "response">>

\* C14: the stages run in the order VAD, wake-word, classification,
\* response, each only if every earlier one accepted; a wake-word stage that
\* reports no detection gives the successful result 'voice_activity' and
\* neither classification nor response runs.
C14_StagesInOrder ==
  RunDone =>
    /\ \E k \in 1..Len(StageOrder) : last_run.stages = SubSeq(StageOrder, 1, k)
    /\ Ran("wake_word") => last_run.vad.voice_detected
    /\ Ran("classification") => last_run.wake.detected
    /\ Ran("response") => ~last_run.classification.is_none
    /\ (Ran("wake_word") /\ ~last_run.wake.detected) =>
         /\ last_run.stages = <<"vad", "wake_word">>
         /\ Verdict => /\ last_run.result.result_type = "voice_activity"
                       /\ last_run.result.success

\* C14 witness: a loud buffer of 60 samples passes the VAD and is too short
\* for the wake word.
C14_Witness ==
  /\ RunDone
  /\ last_run.vad.voice_detected
  /\ ~last_run.wake.detected
  /\ last_run.stages = <<"vad", "wake_word">>
  /\ last_run.result.result_type = "voice_activity"
  /\ last_run.result.success

\* Acceptance thresholds above the smallest confidence the classifier gives
\* (0.6): 0.7 and 0.9.
AcceptanceThresholds == {(7 * ConfUnit) \div 10, (9 * ConfUnit) \div 10}

C16_ResponseNeverEmpty ==
  /\ (Verdict /\ last_run.result.result_type = "command") =>
       /\ \E i \in 1..Len(commands) : last_run.result.data.command = commands[i]
       /\ last_run.result.data.confidence = last_run.classification.confidence
       /\ last_run.result.data.response # ""
  /\ last_run.op = "generate_response" =>
       /\ last_run.result.response # ""
       /\ last_run.command \notin DOMAIN responses =>
            last_run.result.response = "Command understood but not implemented"

\* C16 witness: the response stage called with a command it has no canned
\* response for.
C16_Witness ==
  /\ last_run.op = "generate_response"
  /\ last_run.command = "open_door"
  /\ last_run.result.response = "Command understood but not implemented"

\* C17: when a stage fails during process_audio, the result has outcome
\* error (not a negative or positive verdict).
C17_StageFailureGivesError ==
  (RunDone /\ last_run.failed # "none") =>
    /\ last_run.result.result_type = "error"
    /\ ~last_run.result.success

\* C18: process_audio leaves the cache's resident set, its LRU order and the
\* active model as they were, whatever the outcome, and loads nothing.
C18_RunLeavesCacheAlone ==
  [][eng_op' = "process_audio" =>
       /\ loaded_models' = loaded_models
       /\ active_model' = active_model
       /\ active_model_data' = active_model_data
       /\ loader_calls' = loader_calls
       /\ evicted' = evicted
       /\ last_run'.cache_calls = <<>>]_vars

\* C18 witness: a run through the wake-word stage next to a cache that holds
\* the wake-word and the classifier models.
C18_Witness ==
  /\ RunDone
  /\ Ran("wake_word")
  /\ loaded_models = << [name |-> "wake-word-tiny", data |-> 1],
                        [name |-> "command-classifier", data |-> 2] >>
  /\ active_model = "command-classifier"

\* ------------------------------------------------------------ C19, C20
\* C19 (as stated): every call of process_audio, the empty buffer included,
\* increases the call count by exactly one.
C19_EveryCallIsCounted ==
  [][eng_op' = "process_audio" => total_inferences' = total_inferences + 1]_vars

\* C19 (amended): a call of process_audio with a non-empty buffer, whatever
\* its outcome, increases the call count by one, adds the elapsed time to the
\* cumulative time and raises the peak memory delta to the delta of the call
\* if that is larger; a call with an empty buffer returns None and leaves the
\* three counters as they were.
C19_NonEmptyCallIsCounted ==
  [][eng_op' = "process_audio" =>
       IF last_run'.audio.n = 0
       THEN /\ last_run'.result = NoResult
            /\ UNCHANGED << total_inferences, total_processing_time,
                            memory_peak >>
       ELSE /\ total_inferences' = total_inferences + 1
            /\ total_processing_time' =
                 total_processing_time + last_run'.elapsed
            /\ memory_peak' = IF last_run'.memory_used > memory_peak
                              THEN last_run'.memory_used ELSE memory_peak]_vars

\* C19 witness: two calls counted, the last one ending in outcome error.
C19_Witness ==
  /\ eng_op = "process_audio"
  /\ RunDone
  /\ last_run.result.result_type = "error"
  /\ total_inferences = 2
  /\ total_processing_time = 4
  /\ memory_peak = 2048

\* C20: no operation other than reset_stats decreases a counter; reset_stats
\* sets the three counters to zero and changes nothing else.
C20_OnlyResetLowersCounters ==
  [][/\ eng_op' # "reset_stats" =>
          /\ total_inferences' >= total_inferences
          /\ total_processing_time' >= total_processing_time
          /\ memory_peak' >= memory_peak
     /\ eng_op' = "reset_stats" =>
          /\ total_inferences' = 0
          /\ total_processing_time' = 0
          /\ memory_peak' = 0
          /\ UNCHANGED << context_buffer, audio_buffer, feature_buffer,
                          audio_buffer_size, max_context_length,
                          last_wake_word_time, processing_active, ticks,
                          last_run, manager_vars >>]_vars

\* C20 witness: reset_stats after a run, with a context entry and a wake-word
\* time that the reset has left in place.
C20_Witness ==
  /\ eng_op = "reset_stats"
  /\ RunDone
  /\ total_inferences = 0
  /\ total_processing_time = 0
  /\ memory_peak = 0
  /\ context_buffer # <<>>
  /\ last_wake_word_time > 0

\* ------------------------------------------------------------ C29, C30
\* C29: whenever active_model is not None it is a key of the cache and
\* active_model_data is the cached entry of that name; the entry of the
\* active model is never the one evicted.
C29_ActiveIsResident ==
  /\ active_model # None =>
       /\ InCache(loaded_models, active_model)
       /\ active_model_data = DictGet(loaded_models, active_model)
  /\ (pc = "add_to_cache" /\ CacheFull(loaded_models)) =>
       Head(loaded_models).name # active_model

\* C29 witness: a model is active next to another resident one, after an
\* eviction has taken place.
C29_Witness ==
  /\ pc = "idle"
  /\ active_model # None
  /\ Len(loaded_models) = max_loaded_models
  /\ evicted # {}

\* C30: a load_model that fails because the loader fails leaves the active
\* model and the cache as they were before the call.
C30_FailedLoadChangesNothing ==
  (pc = "idle" /\ last_call.op = "load_model"
               /\ last_call.cause = "load_failure") =>
    /\ ~last_call.ret
    /\ loaded_models = last_call.before_cache
    /\ active_model = last_call.before_active
    /\ active_model_data = last_call.before_data

\* C25: a ModelManager whose max_model_size is smaller than every catalog
\* model is never constructed: in every state of a constructed manager some
\* catalog model passes check_model_compatibility, the gate of load_model,
\* for some amount of free memory.
C25_StartedManagerCanLoad ==
  \E name \in get_available_models : \E free \in CompatMemLevels :
    check_model_compatibility(name, free, max_model_size,
                              performance_tier).compatible

\* ------------------------------------------------------------ C23 .. C24
\* C23: the VAD confidence of every run lies in [0, 1]; a buffer whose
\* level is at or below the noise floor (20 * amp / 32768 <= 15) and a buffer
\* of fewer than 10 samples both give voice_detected = False with confidence
\* 0, and the run returns the VAD-negative result.
C23_VadConfidenceInUnitInterval ==
  RunDone =>
    /\ last_run.vad.confidence >= 0
    /\ last_run.vad.confidence <= ConfUnit
    /\ (last_run.audio.n < 10 \/ 20 * last_run.audio.amp <= 15 * 32768) =>
         /\ ~last_run.vad.voice_detected
         /\ last_run.vad.confidence = 0
         /\ Verdict => /\ last_run.result.result_type = "vad"
                       /\ last_run.result.confidence = 0

\* C23 witness: a buffer of 125 zero samples gives the VAD-negative result
\* with confidence 0.
C23_Witness ==
  /\ RunDone
  /\ last_run.audio = [n |-> 125, amp |-> 0, alt |-> FALSE]
  /\ last_run.fault = "none"
  /\ last_run.vad = [voice_detected |-> FALSE, confidence |-> 0]
  /\ last_run.result.result_type = "vad"
  /\ last_run.result.confidence = 0

\* C23 witness: the confidence of a buffer far above the threshold
\* (20 * 70000 / 32768 = 42.7 dB) is clamped to 1.
C23_WitnessClamped ==
  /\ RunDone
  /\ last_run.audio = [n |-> 125, amp |-> 70000, alt |-> FALSE]
  /\ last_run.fault = "none"
  /\ last_run.vad = [voice_detected |-> TRUE, confidence |-> ConfUnit]

\* The elapsed-time entries and the memory-delta entries of an
\* InferenceResult: the namedtuple has one field for each, and the data of a
\* 'command' or 'wake_word' result embeds the dict of the wake-word stage
\* with its constant processing_time_ms.
TimeEntries(result) ==
  << result.processing_time_ms >> \o
    (IF result.result_type = "command"
     THEN << result.data.wake_word.processing_time_ms >>
     ELSE IF result.result_type = "wake_word"
     THEN << result.data.processing_time_ms >>
     ELSE << >>)
MemoryEntries(result) == << result.memory_used >>

\* The model_name process_audio gives for the results of each stage.
StageModel ==
  [s \in {"vad", "wake_word", "classification", "response"} |->
     IF s = "vad" THEN "vad"
     ELSE IF s = "wake_word" THEN "wake_word" ELSE "command_classifier"]

\* C24: the result of a run holds one elapsed-time entry and one memory
\* entry for every stage that ran, and names the model of the stage that
\* ended the run.
C24_OneEntryPerStageRun ==
  Verdict =>
    /\ Len(TimeEntries(last_run.result)) = Len(last_run.stages)
    /\ Len(MemoryEntries(last_run.result)) = Len(last_run.stages)
    /\ last_run.result.model_name =
         StageModel[last_run.stages[Len(last_run.stages)]]

ArgMax(scores) ==
  CHOOSE i \in 1..Len(scores) :
    /\ \A j \in 1..Len(scores) : scores[j] <= scores[i]
    /\ \A j \in 1..(i - 1) : scores[j] < scores[i]

\* The command list of a component.
CommandList(impl) == IF impl = "ModelManager" THEN manager_commands
                     ELSE commands

\* C22: the distribution of every classification result sums to at most 1.0
\* and the returned command is the first command with the highest score.
C22_DistributionSumsToOneAndArgmax ==
  \A i \in 1..Len(class_log) :
    ~class_log[i].result.is_none =>
      /\ SumSeq(class_log[i].result.all_scores) <= ScoreUnit
      /\ class_log[i].result.command =
           CommandList(class_log[i].impl)[ArgMax(class_log[i].result.all_scores)]

\* ------------------------------------------------------------------ C28
\* The text, without regard to case, has one of the words at some position.
Mentions(text, words) ==
  \E word \in words : \E i \in 1..Len(text) :
    /\ i + Len(word) - 1 <= Len(text)
    /\ \A k \in 1..Len(word) : LowerChar(text[i + k - 1]) = word[k]

\* C28: the intent is weather_query when the text has a weather keyword,
\* else news_query when it has a news keyword, else calculation when it has
\* a calculation keyword, else general_conversation; requires_external is
\* true exactly for weather_query and news_query.
C28_PriorityOrderedKeywordMatch ==
  intent_call.op = "parse_intent" =>
    LET text == intent_call.text
        result == intent_call.result
    IN /\ result.intent =
            IF Mentions(text, weather_words) THEN "weather_query"
            ELSE IF Mentions(text, news_words) THEN "news_query"
            ELSE IF Mentions(text, calculation_words) THEN "calculation"
            ELSE "general_conversation"
       /\ result.requires_external <=>
            result.intent \in {"weather_query", "news_query"}

\* C28 witness: a text with a news keyword and a weather keyword, the news
\* keyword first, is a weather_query that requires external data.
C28_Witness ==
  /\ intent_call.op = "parse_intent"
  /\ StartsWith(Lower(intent_call.text), << "n", "e", "w", "s" >>)
  /\ Mentions(intent_call.text, weather_words)
  /\ intent_call.result.intent = "weather_query"
  /\ intent_call.result.requires_external

\* ------------------------------------------------------------------ C27
\* The engine starts uninitialized with no model.
C27_StartsUninitialized ==
  (py_engine.last.op = "none" /\ py_engine.pc = "idle") =>
    /\ ~py_engine.is_initialized
    /\ py_engine.current_model = NoModel

\* is_initialized() is true exactly when an initialize has completed
\* successfully with no unload_model since.
C27_InitializedIffInitializeSinceUnload ==
  py_engine.is_initialized <=> py_engine.initialized_since_unload

\* complete and complete_streaming raise and change nothing when the engine
\* is not initialized.
C27_CompleteNeedsInitialize ==
  (py_engine.last.op \in {"complete", "complete_streaming"}
     /\ ~py_engine.last.before.is_initialized) =>
    /\ py_engine.last.raised = "RuntimeError"
    /\ py_engine.last.after = py_engine.last.before

\* An initialize that raises leaves is_initialized() and the current model
\* as they were when it was called.
C27_FailedInitializeChangesNothing ==
  (py_engine.last.op = "initialize" /\ py_engine.last.raised # "ok") =>
    /\ py_engine.last.after.is_initialized =
         py_engine.last.before.is_initialized
    /\ py_engine.last.after.current_model =
         py_engine.last.before.current_model

\* C27: the desktop engine starts uninitialized; is_initialized() is true
\* exactly when an initialize has completed successfully with no
\* unload_model since; complete and complete_streaming raise and change
\* nothing when the engine is not initialized; an initialize that raises
\* leaves is_initialized() and the current model as they were.
C27_EngineLifecycle ==
  /\ C27_StartsUninitialized
  /\ C27_InitializedIffInitializeSinceUnload
  /\ C27_CompleteNeedsInitialize
  /\ C27_FailedInitializeChangesNothing

\* ------------------------------------------------------------------ C26
\* The cache holds at most max_loaded_models entries and one entry per name.
SharedCacheBounded ==
  /\ Len(loaded_models) <= max_loaded_models
  /\ \A i, j \in 1..Len(loaded_models) :
       loaded_models[i].name = loaded_models[j].name => i = j

\* A load_model call that returned True left its model in the cache and
\* active when it returned.
SharedLoadLeavesModelActive ==
  \A c \in Callers : tasks[c].ret = "True" => tasks[c].held

\* C26: under every interleaving of the load_model calls of two callers of
\* one ModelManager, the cache holds at most max_loaded_models entries, one
\* per name, and a call that returns True leaves its model resident and
\* active.
C26_SharedCacheInvariants ==
  /\ SharedCacheBounded
  /\ SharedLoadLeavesModelActive

\* C31: the later pipeline stages are reachable on 16-bit audio: a caller
\* that feeds process_audio every buffer of 16-bit samples (at least 100
\* samples each) eventually gets a run that passes the VAD stage, its VAD
\* confidence above the 0.3 threshold and its result type other than 'vad'.
Int16Run ==
  /\ RunDone
  /\ last_run.audio.n >= 100
  /\ last_run.audio.amp <= 32768

C31_Int16BufferPassesVad ==
  <>(/\ Int16Run
     /\ last_run.vad.confidence > (3 * ConfUnit) \div 10
     /\ last_run.result.result_type # "vad")

\* C32: processing_active is false whenever no process_audio call is
\* executing, and true while one is: the flag is set on entry and cleared on
\* every exit path, the one through the except clause included.
C32_BusyOnlyWhileExecuting == processing_active <=> Executing

\* A call that ended in the except clause has returned (the second call of
\* the engine since the last reset), and the engine is not marked busy.
C32_Witness ==
  /\ RunDone
  /\ last_run.fault = "orchestrator"
  /\ last_run.result.result_type = "error"
  /\ total_inferences = 2
  /\ ~processing_active

\* C33: after VoiceProcessor.stop() has returned, the state is IDLE and
\* stays IDLE until start() is called again, whatever coroutine was
\* suspended when stop() was called.
C33_IdleAfterStop == voice.stopped => voice.state = IDLE

\* C34: while the VoiceProcessor is started, whenever no command recording,
\* command processing or speaking is in progress the state is
\* LISTENING_FOR_WAKE_WORD.
NothingInProgress ==
  /\ \A t \in RecTasks : voice.rec[t] = "idle"
  /\ voice.speak = "idle"

C34_ListeningWhenNothingInProgress ==
  (Running /\ NothingInProgress)
    => voice.state = LISTENING_FOR_WAKE_WORD

\* C35: between the calls of the LocalLLMStack, if the stack reports
\* is_initialized then the inference engine is initialized and the stack's
\* current_model is the engine's current model, after any sequence of
\* initialize, switch_model and cleanup.
C35_InitializedStackHasReadyEngine ==
  (stack.pc = "idle" /\ stack.is_initialized)
    => (/\ py_engine.is_initialized
        /\ stack.current_model = py_engine.current_model)

\* C36: every response of process_query in strict privacy mode has source
\* 'local' and privacy_level 'local', whatever the parsed intent is; a
\* response with privacy_level 'cloud' is produced only in permissive mode
\* for an intent that requires external data.
Responded == stack.last.op = "process_query" /\ stack.last.raised = "ok"

C36_StrictModeStaysLocal ==
  Responded =>
    /\ stack.last.privacy_mode = "strict"
         => /\ stack.last.response.source = "local"
            /\ stack.last.response.privacy_level = "local"
    /\ stack.last.response.privacy_level = "cloud"
         => /\ stack.last.privacy_mode = "permissive"
            /\ stack.last.intent.requires_external

\* A query whose intent requires external data was answered in strict mode.
C36_Witness ==
  /\ Responded
  /\ stack.last.privacy_mode = "strict"
  /\ stack.last.intent.requires_external
  /\ stack.last.response.privacy_level = "local"

\* A query was answered with privacy_level 'cloud'.
C36_WitnessCloud ==
  /\ Responded
  /\ stack.last.response.privacy_level = "cloud"


====
